---- MODULE Spec2Model ----
(***************************************************************************)
(* One WatchRoom instance of MnM: the sync engine's receive path           *)
(* (lib/syncEngine.ts), the reconciliation handlers of WatchRoom and the   *)
(* imperative handle and media-event handlers of VideoPlayer.              *)
(*                                                                         *)
(* The whole instance is one record, `room`, and every handler is an       *)
(* operator from a record (and its inputs) to the record after the handler *)
(* returned.  Playback positions are integers in milliseconds: the         *)
(* source's value in seconds is the model's value / 1000.                  *)
(***************************************************************************)
EXTENDS Integers, Sequences, FiniteSets

\* room: the WatchRoom instance of the local identity.  other: the peer's
\* instance, and wire: the broadcasts in flight to each identity, where both
\* ends of the room are followed; where the peer is only the source of the
\* events that arrive, they stay as they are.
VARIABLES room, other, wire

vars == <<room, other, wire>>

\* ------------------------------------------------------------------ bounds

\* Pending suppression time-outs that are told apart; more are merged, since
\* every one of them only resets the same flag.
MaxTimers == 2

\* Chat transcript entries kept; a further chat message is not delivered.
MaxMessages == 1

\* Channels one engine instance creates; no further change of room or identity.
MaxChannels == 3

\* ------------------------------------------------------------ value domains

Aditya == "Aditya"
Manika == "Manika"
Identities == {Aditya, Manika}

\* The instance modelled is Aditya's; Manika is the peer.
LocalIdentity == Aditya
Peer == Manika

\* Playback positions (ms): differences of exactly 500, of 501 and of 1001.
Times == {0, 500, 1001}

\* Values of Date.now() (ms epoch).
Stamps == {1}

\* Room keys (videoId): WatchRoom's effectiveRoomId.
RoomKeys == {"room1", "room2"}

Hashes == {"abc123", "def456"}
FileNames == {"movie.mp4"}
Texts == {"hi"}

NoTime == 0 - 1
NoFile == [name |-> "", hash |-> ""]
NoWarning == [sender |-> "", fileName |-> ""]
NoNotification == [text |-> "", who |-> ""]

\* channelRef.current = null; the channels the client creates are 1, 2, ...
NoChannel == 0

DRIFT_TOLERANCE_MS == 500
TIME_SYNC_INTERVAL_MS == 3000

\* ------------------------------------------------------------------ events

PlaybackStateEvents ==
    [type : {"playback_state"}, state : {"playing", "paused", "seeked"},
     time : Times, sender : Identities, timestamp : Stamps]

BufferStateEvents ==
    [type : {"buffer_state"}, isBuffering : BOOLEAN, sender : Identities,
     timestamp : Stamps]

TimeSyncEvents ==
    [type : {"time_sync"}, time : Times, state : {"playing", "paused"},
     sender : Identities, timestamp : Stamps]

ChatMessageEvents ==
    [type : {"chat_message"}, text : Texts, sender : Identities,
     timestamp : Stamps]

ChatUiStateEvents ==
    [type : {"chat_ui_state"}, isOpen : BOOLEAN, sender : Identities]

RequestStateEvents ==
    [type : {"request_state"}, sender : Identities]

FileHashEvents ==
    [type : {"file_hash"}, hash : Hashes, fileName : FileNames,
     sender : Identities]

SyncEvent ==
    PlaybackStateEvents \cup BufferStateEvents \cup TimeSyncEvents
        \cup ChatMessageEvents \cup ChatUiStateEvents
        \cup RequestStateEvents \cup FileHashEvents

\* ------------------------------------------------------- player commands

Cmd(op, t) == [op |-> op, time |-> t]

AddTimer(n) == IF n < MaxTimers THEN n + 1 ELSE MaxTimers

\* VideoPlayer handle: play().  HTMLMediaElement.play() clears `paused` and, if
\* the element was paused, queues `play` and `playing`.
play(w) ==
    [w EXCEPT !.suppressEvents = TRUE,
              !.paused = FALSE,
              !.pending = IF w.paused THEN @ \cup {"play", "playing"} ELSE @,
              !.timers = AddTimer(@),
              !.cmds = Append(@, Cmd("play", NoTime))]

\* VideoPlayer handle: pause().  HTMLMediaElement.pause() sets `paused` and, if
\* the element was playing, queues `pause`.
pause(w) ==
    [w EXCEPT !.suppressEvents = TRUE,
              !.paused = TRUE,
              !.pending = IF w.paused THEN @ ELSE @ \cup {"pause"},
              !.timers = AddTimer(@),
              !.cmds = Append(@, Cmd("pause", NoTime))]

\* VideoPlayer handle: seekTo(time).  Setting currentTime starts a seek, which
\* ends with `seeked`; a seek still in progress is replaced.
seekTo(w, time) ==
    [w EXCEPT !.suppressEvents = TRUE,
              !.currentTime = time,
              !.pending = @ \cup {"seeked"},
              !.timers = AddTimer(@),
              !.cmds = Append(@, Cmd("seekTo", time))]

getCurrentTime(w) == w.currentTime

isPlaying(w) == ~w.paused

\* -------------------------------------------------------------- sync engine

\* A call made on the transport client or on one of its channels.
Op(op, channel) == [op |-> op, channel |-> channel]

\* Mutant: the effect subscribes whatever the room key and the identity.
SubscriptionEffect_AnyKey(w) ==
    LET channel == w.created + 1
    IN  [w EXCEPT !.created = channel,
                  !.live = @ \cup {channel},
                  !.channel = channel,
                  !.cleanupOf = channel,
                  !.ops = @ \o <<Op("channel", channel),
                                 Op("subscribe", channel)>>]

\* The body of the subscription effect: with a room key and an identity, a
\* channel is created, its listeners registered, subscribe() called and the
\* handle kept in channelRef; the clean-up returned closes over that channel.
SubscriptionEffect(w) ==
    IF w.videoId = "" \/ w.identity = "" THEN w
    ELSE LET channel == w.created + 1
         IN  [w EXCEPT !.created = channel,
                       !.live = @ \cup {channel},
                       !.channel = channel,
                       !.cleanupOf = channel,
                       !.ops = @ \o <<Op("channel", channel),
                                      Op("subscribe", channel)>>]

\* Mutant: the clean-up drops the handle and keeps the subscription.
Cleanup_NoUnsubscribe(w) ==
    IF w.cleanupOf = NoChannel THEN w
    ELSE [w EXCEPT !.channel = NoChannel,
                   !.connected = FALSE,
                   !.cleanupOf = NoChannel]

\* The clean-up of the subscription effect, if the effect returned one.
Cleanup(w) ==
    IF w.cleanupOf = NoChannel THEN w
    ELSE [w EXCEPT !.live = @ \ {w.cleanupOf},
                   !.channel = NoChannel,
                   !.connected = FALSE,
                   !.cleanupOf = NoChannel,
                   !.ops = Append(@, Op("unsubscribe", w.cleanupOf))]

\* broadcast(event): handed to the channel, or dropped when there is none.
broadcast(w, event) ==
    IF w.channel = NoChannel THEN w
    ELSE [w EXCEPT !.sent = Append(@, event),
                   !.sentOn = Append(@, w.channel)]

emitPlaybackState(w, state, time, now) ==
    IF w.identity = "" THEN w
    ELSE broadcast(w, [type |-> "playback_state", state |-> state, time |-> time,
                       sender |-> w.identity, timestamp |-> now])

emitBufferState(w, isBuffering, now) ==
    IF w.identity = "" THEN w
    ELSE broadcast(w, [type |-> "buffer_state", isBuffering |-> isBuffering,
                       sender |-> w.identity, timestamp |-> now])

emitTimeSync(w, time, state, now) ==
    IF w.identity = "" THEN w
    ELSE broadcast(w, [type |-> "time_sync", time |-> time, state |-> state,
                       sender |-> w.identity, timestamp |-> now])

emitChatMessage(w, text, now) ==
    IF w.identity = "" THEN w
    ELSE broadcast(w, [type |-> "chat_message", text |-> text,
                       sender |-> w.identity, timestamp |-> now])

emitChatUiState(w, isOpen) ==
    IF w.identity = "" THEN w
    ELSE broadcast(w, [type |-> "chat_ui_state", isOpen |-> isOpen,
                       sender |-> w.identity])

requestCurrentState(w) ==
    IF w.identity = "" THEN w
    ELSE broadcast(w, [type |-> "request_state", sender |-> w.identity])

emitFileHash(w, hash, fileName) ==
    IF w.identity = "" THEN w
    ELSE broadcast(w, [type |-> "file_hash", hash |-> hash, fileName |-> fileName,
                       sender |-> w.identity])

\* ------------------------------------------------- reconciliation handlers

\* Mutant: play() before seekTo() on `playing`.
handlePlaybackState_PlayFirst(w, event) ==
    IF ~w.mounted THEN w
    ELSE IF event.state = "playing" THEN seekTo(play(w), event.time)
    ELSE IF event.state = "paused" THEN seekTo(pause(w), event.time)
    ELSE IF event.state = "seeked" THEN seekTo(w, event.time)
    ELSE w

\* Mutant: seekTo() before pause() on `paused`.
handlePlaybackState_SeekFirst(w, event) ==
    IF ~w.mounted THEN w
    ELSE IF event.state = "playing" THEN play(seekTo(w, event.time))
    ELSE IF event.state = "paused" THEN pause(seekTo(w, event.time))
    ELSE IF event.state = "seeked" THEN seekTo(w, event.time)
    ELSE w

\* Mutant: `seeked` falls through to the `paused` branch.
handlePlaybackState_SeekedPauses(w, event) ==
    IF ~w.mounted THEN w
    ELSE IF event.state = "playing" THEN play(seekTo(w, event.time))
    ELSE seekTo(pause(w), event.time)

\* Mutant: an event stamped earlier than the playback_state applied just
\* before it is dropped as stale.
handlePlaybackState_DropStale(w, event) ==
    IF ~w.mounted THEN w
    ELSE IF w.prior.type = "playback_state" /\ w.prior.sender = event.sender
            /\ w.prior.timestamp > event.timestamp
    THEN w
    ELSE IF event.state = "playing" THEN play(seekTo(w, event.time))
    ELSE IF event.state = "paused" THEN seekTo(pause(w), event.time)
    ELSE IF event.state = "seeked" THEN seekTo(w, event.time)
    ELSE w

handlePlaybackState(w, event) ==
    IF ~w.mounted THEN w
    ELSE IF event.state = "playing" THEN play(seekTo(w, event.time))
    ELSE IF event.state = "paused" THEN seekTo(pause(w), event.time)
    ELSE IF event.state = "seeked" THEN seekTo(w, event.time)
    ELSE w

\* Mutant: the peer's recovery resumes playback whatever the local stall.
handleBufferState_NoLocalCheck(w, event) ==
    LET w1 == [w EXCEPT !.peerBuffering = event.isBuffering]
    IN  IF event.isBuffering
        THEN LET w2 == [w1 EXCEPT !.bufferNotice = event.sender]
             IN  IF w2.mounted THEN pause(w2) ELSE w2
        ELSE LET w2 == [w1 EXCEPT !.bufferNotice = ""]
             IN  IF w2.mounted THEN play(w2) ELSE w2

\* Mutant: pause() is issued only to a player that is playing and not
\* stalled itself.
handleBufferState_PauseIfPlaying(w, event) ==
    LET w1 == [w EXCEPT !.peerBuffering = event.isBuffering]
    IN  IF event.isBuffering
        THEN LET w2 == [w1 EXCEPT !.bufferNotice = event.sender]
             IN  IF w2.mounted /\ ~w2.paused /\ ~w2.localBuffering
                 THEN pause(w2) ELSE w2
        ELSE LET w2 == [w1 EXCEPT !.bufferNotice = ""]
             IN  IF ~w2.localBuffering /\ w2.mounted THEN play(w2) ELSE w2

handleBufferState(w, event) ==
    LET w1 == [w EXCEPT !.peerBuffering = event.isBuffering]
    IN  IF event.isBuffering
        THEN LET w2 == [w1 EXCEPT !.bufferNotice = event.sender]
             IN  IF w2.mounted THEN pause(w2) ELSE w2
        ELSE LET w2 == [w1 EXCEPT !.bufferNotice = ""]
             IN  IF ~w2.localBuffering /\ w2.mounted THEN play(w2) ELSE w2

Abs(x) == IF x < 0 THEN 0 - x ELSE x

\* Mutant: a drift of exactly the tolerance is corrected too.
handleTimeSync_SeekAtTolerance(w, event) ==
    IF ~w.mounted THEN w
    ELSE LET localTime == getCurrentTime(w)
             drift == Abs(localTime - event.time)
             w1 == IF drift >= 500 THEN seekTo(w, event.time) ELSE w
             localPlaying == isPlaying(w1)
         IN  IF event.state = "playing" /\ ~localPlaying
                  /\ ~w1.peerBuffering /\ ~w1.localBuffering
             THEN play(w1)
             ELSE IF event.state = "paused" /\ localPlaying
             THEN pause(w1)
             ELSE w1

\* Mutant: the heartbeat resumes playback during the local stall.
handleTimeSync_NoLocalCheck(w, event) ==
    IF ~w.mounted THEN w
    ELSE LET localTime == getCurrentTime(w)
             drift == Abs(localTime - event.time)
             w1 == IF drift > 500 THEN seekTo(w, event.time) ELSE w
             localPlaying == isPlaying(w1)
         IN  IF event.state = "playing" /\ ~localPlaying /\ ~w1.peerBuffering
             THEN play(w1)
             ELSE IF event.state = "paused" /\ localPlaying
             THEN pause(w1)
             ELSE w1

handleTimeSync(w, event) ==
    IF ~w.mounted THEN w
    ELSE LET localTime == getCurrentTime(w)
             drift == Abs(localTime - event.time)
             w1 == IF drift > 500 THEN seekTo(w, event.time) ELSE w
             localPlaying == isPlaying(w1)
         IN  IF event.state = "playing" /\ ~localPlaying
                  /\ ~w1.peerBuffering /\ ~w1.localBuffering
             THEN play(w1)
             ELSE IF event.state = "paused" /\ localPlaying
             THEN pause(w1)
             ELSE w1

\* Mutant: the newest message is put first.
handleChatMessage_Prepend(w, event) ==
    [w EXCEPT !.messages = <<[text |-> event.text, sender |-> event.sender,
                              timestamp |-> event.timestamp]>> \o @]

handleChatMessage(w, event) ==
    [w EXCEPT !.messages =
        Append(@, [text |-> event.text, sender |-> event.sender,
                   timestamp |-> event.timestamp])]

handleChatUiState(w, event) ==
    [w EXCEPT !.peerChatOpen = IF event.isOpen THEN "true" ELSE "false"]

\* Mutant: the reply carries the file hash only.
handleRequestState_HashOnly(w, now) ==
    IF ~w.mounted THEN w
    ELSE IF w.mode = "local" /\ w.localFile.hash # ""
    THEN emitFileHash(w, w.localFile.hash, w.localFile.name)
    ELSE w

\* Mutant: the reply always reports `paused`.
handleRequestState_AlwaysPaused(w, now) ==
    IF ~w.mounted THEN w
    ELSE LET w1 == emitPlaybackState(w, "paused", getCurrentTime(w), now)
         IN  IF w1.mode = "local" /\ w1.localFile.hash # ""
             THEN emitFileHash(w1, w1.localFile.hash, w1.localFile.name)
             ELSE w1

handleRequestState(w, now) ==
    IF ~w.mounted THEN w
    ELSE LET time == getCurrentTime(w)
             playing == isPlaying(w)
             w1 == emitPlaybackState(w, IF playing THEN "playing" ELSE "paused",
                                     time, now)
         IN  IF w1.mode = "local" /\ w1.localFile.hash # ""
             THEN emitFileHash(w1, w1.localFile.hash, w1.localFile.name)
             ELSE w1

\* showNotification(msg): the toast, and the 4 s time-out that clears it.
showNotification(w, text, who) ==
    [w EXCEPT !.notification = [text |-> text, who |-> who],
              !.notifTimers = AddTimer(@)]

\* Mutant: a differing hash leaves the warning as it is.
handleFileHash_SilentMismatch(w, event) ==
    IF w.mode = "local" /\ w.localFile.hash # ""
    THEN IF event.hash # w.localFile.hash
         THEN w
         ELSE showNotification([w EXCEPT !.hashWarning = NoWarning],
                               "File verified", event.sender)
    ELSE w

handleFileHash(w, event) ==
    IF w.mode = "local" /\ w.localFile.hash # ""
    THEN IF event.hash # w.localFile.hash
         THEN [w EXCEPT !.hashWarning =
                  [sender |-> event.sender, fileName |-> event.fileName]]
         ELSE showNotification([w EXCEPT !.hashWarning = NoWarning],
                               "File verified", event.sender)
    ELSE w

\* Mutant: the peer's leaving ends the wait for it.
handlePresenceChange_ResetOnLeave(w, state) ==
    LET w1 == showNotification(
                  [w EXCEPT !.peerOnline = state.online,
                            !.peerName = state.identity],
                  IF state.online THEN "joined the room" ELSE "left the room",
                  state.identity)
    IN  IF state.online THEN w1
        ELSE [w1 EXCEPT !.peerBuffering = FALSE, !.bufferNotice = ""]

handlePresenceChange(w, state) ==
    showNotification([w EXCEPT !.peerOnline = state.online,
                               !.peerName = state.identity],
                     IF state.online THEN "joined the room" ELSE "left the room",
                     state.identity)

\* callbackRefs.current.<name>?.(data): the call is logged in `invoked`.
Call(w, name) == [w EXCEPT !.invoked = Append(@, name)]

\* The switch on data.type of the channel's broadcast callback.
Dispatch(w, data, now) ==
    IF data.type = "playback_state"
    THEN handlePlaybackState(Call(w, "onPlaybackState"), data)
    ELSE IF data.type = "buffer_state"
    THEN handleBufferState(Call(w, "onBufferState"), data)
    ELSE IF data.type = "time_sync"
    THEN handleTimeSync(Call(w, "onTimeSync"), data)
    ELSE IF data.type = "chat_message"
    THEN handleChatMessage(Call(w, "onChatMessage"), data)
    ELSE IF data.type = "chat_ui_state"
    THEN handleChatUiState(Call(w, "onChatUiState"), data)
    ELSE IF data.type = "request_state"
    THEN handleRequestState(Call(w, "onRequestState"), now)
    ELSE IF data.type = "file_hash"
    THEN handleFileHash(Call(w, "onFileHash"), data)
    ELSE w

\* Mutant: no self-echo filter.
OnBroadcast_NoSelfFilter(w, data, now) == Dispatch(w, data, now)

\* A broadcast whose payload is null or undefined.
NoPayload == [type |-> "null", sender |-> ""]

\* The channel's broadcast callback: `!data`, self-echo filter, then the switch.
OnBroadcast(w, data, now) ==
    IF data = NoPayload \/ data.sender = w.identity THEN w
    ELSE Dispatch(w, data, now)

\* Mutant: the presence callbacks surface the local identity too.
OnPresence_NoSelfFilter(w, key, online) ==
    LET state == [identity |-> key, online |-> online]
    IN  handlePresenceChange(
            [Call(w, "onPresenceChange") EXCEPT !.surfaced = Append(@, state)],
            state)

\* The channel's presence callbacks; the PresenceState handed to
\* onPresenceChange is logged in `surfaced`.
OnPresence(w, key, online) ==
    IF key # w.identity
    THEN LET state == [identity |-> key, online |-> online]
         IN  handlePresenceChange(
                 [Call(w, "onPresenceChange") EXCEPT
                     !.surfaced = Append(@, state)],
                 state)
    ELSE w

OnPresenceJoin(w, key) == OnPresence(w, key, TRUE)

OnPresenceLeave(w, key) == OnPresence(w, key, FALSE)

\* ---------------------------------------------------------- initial state

LocalFiles == [name : FileNames, hash : {"def456"}]

\* Mutant: the peer's state is asked for before the file is announced.
ConnectEffect_RequestFirst(w) ==
    IF w.connected /\ w.mode = "local" /\ w.localFile.hash # ""
    THEN emitFileHash(requestCurrentState(w),
                      w.localFile.hash, w.localFile.name)
    ELSE IF w.connected /\ w.mode = "cloud" THEN requestCurrentState(w)
    ELSE w

\* The effect on `connected`, mode and localFile: the file is announced (local
\* mode) and the peer's state asked for, once connected.
ConnectEffect(w) ==
    IF w.connected /\ w.mode = "local" /\ w.localFile.hash # ""
    THEN requestCurrentState(
             emitFileHash(w, w.localFile.hash, w.localFile.name))
    ELSE IF w.connected /\ w.mode = "cloud" THEN requestCurrentState(w)
    ELSE w

\* The initial values of the state and refs of WatchRoom and of the engine, for
\* the options of the first render; in local mode the object URL is at hand
\* and the player mounts at once, in cloud mode after the URL fetch.
Fresh(videoId, identity, mode, file) ==
    [videoId |-> videoId, identity |-> identity, mode |-> mode,
     localFile |-> file, alive |-> TRUE,
     channel |-> NoChannel, connected |-> FALSE,
     created |-> 0, live |-> {}, cleanupOf |-> NoChannel,
     peerOnline |-> FALSE, peerName |-> "",
     mounted |-> (mode = "local"), paused |-> TRUE, currentTime |-> 0,
     suppressEvents |-> FALSE, timers |-> 0, pending |-> {},
     localBuffering |-> FALSE, peerBuffering |-> FALSE, bufferNotice |-> "",
     messages |-> <<>>, peerChatOpen |-> "undefined",
     notification |-> NoNotification, notifTimers |-> 0,
     hashWarning |-> NoWarning,
     \* logs of the last action, for the properties below
     last |-> [type |-> "mount", sender |-> ""],
     pre |-> [mounted |-> FALSE, paused |-> TRUE, currentTime |-> 0,
              localBuffering |-> FALSE, peerBuffering |-> FALSE],
     invoked |-> <<>>, cmds |-> <<>>, sent |-> <<>>,
     tracked |-> <<>>, surfaced |-> <<>>, ops |-> <<>>,
     \* whether a snapshot of the peer has been received (PairSpec)
     snapshot |-> FALSE,
     \* ms since the heartbeat interval was set, and ms of playing since the
     \* last time_sync was handed to the channel (BeatSpec)
     elapsed |-> 0, sinceSync |-> 0,
     \* whether the heartbeat interval is set, and the channel each event of
     \* `sent` was handed to
     interval |-> FALSE, sentOn |-> <<>>,
     \* what `last` was before the last broadcast was received (ApplySpec)
     prior |-> [type |-> "none", sender |-> ""]]

\* The heartbeat effect: clearInterval for the interval of the last run and
\* setInterval anew.
HeartbeatEffect(w) == [w EXCEPT !.elapsed = 0, !.interval = TRUE]

\* The effects of the first render.
Mount(w) == HeartbeatEffect(ConnectEffect(SubscriptionEffect(w)))

\* A WatchRoom just mounted for `identity` in room1: the channel is created
\* by the engine's effect and nothing is subscribed yet.
NewRoom(identity, mode, file) == Mount(Fresh("room1", identity, mode, file))

\* The peer's end is not followed.
NoRoom == [identity |-> Peer]
NoWire == [id \in Identities |-> <<>>]

Alone == UNCHANGED <<other, wire>>

Init ==
    /\ \/ room = NewRoom(LocalIdentity, "cloud", NoFile)
       \/ \E f \in LocalFiles : room = NewRoom(LocalIdentity, "local", f)
    /\ other = NoRoom
    /\ wire = NoWire

\* What an action starts from: `last` names the action, `pre` keeps the player
\* and buffering state it found, and the logs of the previous action (handlers
\* invoked, player commands, events handed to the channel) are dropped.
Begin(w, what) ==
    [w EXCEPT !.last = what,
              !.pre = [mounted |-> w.mounted, paused |-> w.paused,
                       currentTime |-> w.currentTime,
                       localBuffering |-> w.localBuffering,
                       peerBuffering |-> w.peerBuffering],
              !.invoked = <<>>, !.cmds = <<>>, !.sent = <<>>,
              !.tracked = <<>>, !.surfaced = <<>>, !.ops = <<>>,
              !.sentOn = <<>>]

Tag(name) == [type |-> name, sender |-> ""]

\* A received broadcast as `last` keeps it: the peer's event whole, of a
\* self-echo its type and sender.
Received(data) ==
    IF data.sender = LocalIdentity
    THEN [type |-> data.type, sender |-> data.sender]
    ELSE data

\* The instance without the logs of its last action.
State(w) ==
    [videoId |-> w.videoId, identity |-> w.identity, mode |-> w.mode,
     localFile |-> w.localFile, alive |-> w.alive,
     channel |-> w.channel, connected |-> w.connected,
     created |-> w.created, live |-> w.live, cleanupOf |-> w.cleanupOf,
     peerOnline |-> w.peerOnline, peerName |-> w.peerName,
     mounted |-> w.mounted, paused |-> w.paused, currentTime |-> w.currentTime,
     suppressEvents |-> w.suppressEvents, timers |-> w.timers,
     pending |-> w.pending,
     localBuffering |-> w.localBuffering, peerBuffering |-> w.peerBuffering,
     bufferNotice |-> w.bufferNotice,
     messages |-> w.messages, peerChatOpen |-> w.peerChatOpen,
     notification |-> w.notification, notifTimers |-> w.notifTimers,
     hashWarning |-> w.hashWarning]

\* ----------------------------------------------------------------- actions

\* A broadcast arrives on the subscribed channel.
Receive(data, now) ==
    /\ room.channel \in room.live
    /\ room.connected
    /\ data.type = "chat_message" => Len(room.messages) < MaxMessages
    /\ room' = OnBroadcast(Begin(room, Received(data)), data, now)
    /\ Alone

\* The subscribe callback on SUBSCRIBED: setConnected(true) and
\* channel.track(); the render that follows runs the effect on `connected` if
\* the flag changed.
OnSubscribed(w) ==
    LET w1 == [w EXCEPT !.connected = TRUE,
                        !.tracked = Append(@, [identity |-> w.identity,
                                               online |-> TRUE])]
    IN  IF w.connected THEN w1 ELSE ConnectEffect(w1)

\* Mutant: every status counts as a subscription.
OnSubscribeStatus_AnyStatus(w, status) == OnSubscribed(w)

\* The subscribe callback, for any status the channel reports.
OnSubscribeStatus(w, status) ==
    IF status = "SUBSCRIBED" THEN OnSubscribed(w) ELSE w

Subscribed ==
    /\ room.channel \in room.live
    /\ ~room.connected
    /\ room' = OnSubscribed(Begin(room, Tag("subscribed")))
    /\ Alone

\* Cloud mode: the signed URL arrives and the VideoPlayer is rendered.
StreamReady ==
    /\ ~room.mounted
    /\ room.mode = "cloud"
    /\ room' = [Begin(room, Tag("stream_ready")) EXCEPT !.mounted = TRUE]
    /\ Alone

\* The video element's play / pause / seeked listeners, which forward to
\* WatchRoom's handlePlay / handlePause / handleSeeked unless suppressed.
onPlayEvent(w, now) ==
    IF ~w.suppressEvents
    THEN emitPlaybackState(w, "playing", getCurrentTime(w), now)
    ELSE w

onPauseEvent(w, now) ==
    IF ~w.suppressEvents
    THEN emitPlaybackState(w, "paused", getCurrentTime(w), now)
    ELSE w

onSeekedEvent(w, now) ==
    IF ~w.suppressEvents
    THEN emitPlaybackState(w, "seeked", getCurrentTime(w), now)
    ELSE w

\* `waiting` -> handleBufferingStart, `playing` -> handleBufferingEnd.
handleBufferingStart(w, now) ==
    emitBufferState([w EXCEPT !.localBuffering = TRUE], TRUE, now)

handleBufferingEnd(w, now) ==
    emitBufferState([w EXCEPT !.localBuffering = FALSE], FALSE, now)

OnMediaEvent(w, kind, now) ==
    IF kind = "play" THEN onPlayEvent(w, now)
    ELSE IF kind = "pause" THEN onPauseEvent(w, now)
    ELSE IF kind = "seeked" THEN onSeekedEvent(w, now)
    ELSE IF kind = "playing" THEN handleBufferingEnd(w, now)
    ELSE w

\* A media event queued by a programmatic command is dispatched.
MediaEvent(kind, now) ==
    /\ room.mounted
    /\ kind \in room.pending
    /\ room' = OnMediaEvent(
                   [Begin(room, Tag("media_" \o kind)) EXCEPT !.pending = @ \ {kind}],
                   kind, now)
    /\ Alone

\* The user clicks the video or the play button (togglePlay); the element's
\* play or pause event follows at once, `playing` later.
togglePlay(w, now) ==
    IF w.paused
    THEN onPlayEvent([w EXCEPT !.paused = FALSE,
                               !.pending = @ \cup {"playing"}], now)
    ELSE onPauseEvent([w EXCEPT !.paused = TRUE], now)

UserTogglePlay(now) ==
    /\ room.mounted
    /\ room' = togglePlay(Begin(room, Tag("user_toggle")), now)
    /\ Alone

\* The user drags the seek bar (handleSeek); the element's seeked event follows.
UserSeek(time, now) ==
    /\ room.mounted
    /\ time # room.currentTime
    /\ room' = onSeekedEvent(
                   [Begin(room, Tag("user_seek")) EXCEPT !.currentTime = time], now)
    /\ Alone

\* One of the time-outs set by play(), pause() or seekTo() fires.
SuppressTimeout ==
    /\ room.timers > 0
    /\ room' = [Begin(room, Tag("suppress_timeout")) EXCEPT
                   !.suppressEvents = FALSE, !.timers = @ - 1]
    /\ Alone

\* The element runs out of data while playing (`waiting`).
VideoWaiting(now) ==
    /\ room.mounted
    /\ ~room.paused
    /\ room' = handleBufferingStart(Begin(room, Tag("waiting")), now)
    /\ Alone

\* Data is back while the element is playing (`playing`).
VideoRecover(now) ==
    /\ room.mounted
    /\ ~room.paused
    /\ room.localBuffering
    /\ room' = handleBufferingEnd(Begin(room, Tag("recover")), now)
    /\ Alone

\* Playback moves on to the next position.
PlaybackAdvance ==
    /\ room.mounted
    /\ ~room.paused
    /\ \E t \in Times :
        /\ t > room.currentTime
        /\ \A u \in Times : u > room.currentTime => t <= u
        /\ room' = [Begin(room, Tag("timeupdate")) EXCEPT !.currentTime = t]
    /\ Alone

\* Mutant: the heartbeat reports the position whether or not the player plays.
OnHeartbeat_NoPlayingCheck(w, now) ==
    IF ~w.mounted THEN w
    ELSE emitTimeSync(w, getCurrentTime(w), "playing", now)

\* The heartbeat interval fires.
OnHeartbeat(w, now) ==
    IF ~w.mounted THEN w
    ELSE IF isPlaying(w) THEN emitTimeSync(w, getCurrentTime(w), "playing", now)
    ELSE w

HeartbeatTick(now) ==
    /\ room' = OnHeartbeat(Begin(room, Tag("heartbeat")), now)
    /\ Alone

\* The broadcasts of the reconciliation core: the peer's playback_state,
\* buffer_state, time_sync and request_state, and the local identity's own
\* events of every type, looped back by the transport.
CoreEvents ==
    {e \in SyncEvent :
        \/ e.sender = LocalIdentity
        \/ e.type \in {"playback_state", "buffer_state", "time_sync",
                        "request_state"}}

Next ==
    \/ \E data \in CoreEvents, now \in Stamps : Receive(data, now)
    \/ Subscribed
    \/ StreamReady
    \/ \E kind \in {"play", "pause", "seeked", "playing"}, now \in Stamps :
           MediaEvent(kind, now)
    \/ \E now \in Stamps : UserTogglePlay(now)
    \/ \E time \in Times, now \in Stamps : UserSeek(time, now)
    \/ SuppressTimeout
    \/ \E now \in Stamps : VideoWaiting(now)
    \/ \E now \in Stamps : VideoRecover(now)
    \/ PlaybackAdvance
    \/ \E now \in Stamps : HeartbeatTick(now)

Spec == Init /\ [][Next]_vars

\* ------------------------------------------------- the engine's life cycle

\* A field the payload does not have reads as undefined.
Undefined == "undefined"

\* Payloads of a known kind that lack a required field.
MalformedEvents ==
    [type : {"playback_state"}, state : {Undefined}, time : Times,
     sender : {Peer}, timestamp : Stamps]
        \cup [type : {"chat_message"}, text : {Undefined}, sender : {Peer},
              timestamp : Stamps]
        \cup [type : {"file_hash"}, hash : Hashes, fileName : {Undefined},
              sender : {Peer}]

\* Payloads of a kind the switch does not know.
ForeignEvents == [type : {"reaction", "typing"}, sender : {Peer}]

OddPayloads == {NoPayload} \cup ForeignEvents \cup MalformedEvents

\* The options of the hook's first render.
EngineInit ==
    /\ \E videoId \in RoomKeys \cup {""}, identity \in {LocalIdentity, ""} :
           \/ room = Mount(Fresh(videoId, identity, "cloud", NoFile))
           \/ \E f \in LocalFiles :
                  room = Mount(Fresh(videoId, identity, "local", f))
    /\ other = NoRoom
    /\ wire = NoWire

\* The channel reports a status to the subscribe callback.
SubscribeStatus(status) ==
    /\ room.live # {}
    /\ room' = OnSubscribeStatus(Begin(room, Tag(status)), status)
    /\ Alone

\* A render with another room key or identity: the clean-up of the last
\* subscription effect, the effect again, and the effect on `connected` if the
\* flag changed.
OnDepsChange(w, videoId, identity) ==
    LET w1 == SubscriptionEffect(
                  [Cleanup(w) EXCEPT !.videoId = videoId,
                                     !.identity = identity])
    IN  IF w1.connected # w.connected THEN ConnectEffect(w1) ELSE w1

DepsChange(videoId, identity) ==
    /\ room.alive
    /\ room.created < MaxChannels
    /\ <<videoId, identity>> # <<room.videoId, room.identity>>
    /\ room' = OnDepsChange(Begin(room, Tag("deps_change")), videoId, identity)
    /\ Alone

\* The watch room is left: the hook unmounts and its clean-up runs.
Unmount ==
    /\ room.alive
    /\ room' = [Cleanup(Begin(room, Tag("unmount"))) EXCEPT !.alive = FALSE]
    /\ Alone

\* A call of one of the engine's emit functions, its arguments those of `e`.
Emit(w, e) ==
    IF e.type = "playback_state"
    THEN emitPlaybackState(w, e.state, e.time, e.timestamp)
    ELSE IF e.type = "buffer_state"
    THEN emitBufferState(w, e.isBuffering, e.timestamp)
    ELSE IF e.type = "time_sync"
    THEN emitTimeSync(w, e.time, e.state, e.timestamp)
    ELSE IF e.type = "chat_message"
    THEN emitChatMessage(w, e.text, e.timestamp)
    ELSE IF e.type = "chat_ui_state"
    THEN emitChatUiState(w, e.isOpen)
    ELSE IF e.type = "request_state"
    THEN requestCurrentState(w)
    ELSE emitFileHash(w, e.hash, e.fileName)

EmitCall(e) ==
    /\ room' = Emit(Begin(room, Tag("emit_" \o e.type)), e)
    /\ Alone

\* A presence join or leave reaches the subscribed channel.
PresenceJoin(key) ==
    /\ room.channel \in room.live
    /\ room.connected
    /\ room' = OnPresenceJoin(Begin(room, [type |-> "presence_join",
                                           sender |-> "", key |-> key]), key)
    /\ Alone

PresenceLeave(key) ==
    /\ room.channel \in room.live
    /\ room.connected
    /\ room' = OnPresenceLeave(Begin(room, [type |-> "presence_leave",
                                            sender |-> "", key |-> key]), key)
    /\ Alone

\* One of the 4 s time-outs of showNotification fires.
NotificationTimeout ==
    /\ room.notifTimers > 0
    /\ room' = [Begin(room, Tag("notification_timeout")) EXCEPT
                   !.notification = NoNotification, !.notifTimers = @ - 1]
    /\ Alone

EngineNext ==
    \/ \E status \in {"SUBSCRIBED", "CHANNEL_ERROR", "TIMED_OUT", "CLOSED"} :
           SubscribeStatus(status)
    \/ \E videoId \in RoomKeys \cup {""}, identity \in {LocalIdentity, ""} :
           DepsChange(videoId, identity)
    \/ Unmount
    \/ \E e \in {x \in SyncEvent : x.sender = LocalIdentity} : EmitCall(e)
    \/ \E key \in Identities : PresenceJoin(key)
    \/ \E key \in Identities : PresenceLeave(key)
    \/ NotificationTimeout
    \/ \E data \in OddPayloads, now \in Stamps : Receive(data, now)

EngineSpec == EngineInit /\ [][EngineNext]_vars

\* ------------------------------------------------------ file verification

\* The user presses Dismiss on the mismatch warning.
DismissWarning ==
    /\ room.hashWarning # NoWarning
    /\ room' = [Begin(room, Tag("dismiss")) EXCEPT !.hashWarning = NoWarning]
    /\ Alone

\* Broadcasts of every type; those that move the player, for position 0.
FileEvents ==
    {e \in SyncEvent :
        e.type \in {"playback_state", "time_sync"} => e.time = 0}

\* The room while broadcasts of every type arrive, from the peer and looped
\* back, with the user at the warning and the notification running out.
FileNext ==
    \/ \E data \in FileEvents, now \in Stamps : Receive(data, now)
    \/ Subscribed
    \/ StreamReady
    \/ DismissWarning
    \/ NotificationTimeout
    \/ SuppressTimeout

FileSpec == Init /\ [][FileNext]_vars

\* --------------------------------------------------- both ends of the room

\* The late-join exchange between the two instances: subscription at either
\* end in either order, the stream URL, the user's play button, and the
\* delivery in order of what each end broadcasts.  The media events that follow
\* a programmatic command and the heartbeat are followed in Spec, not here.

Side(id) == IF id = LocalIdentity THEN room ELSE other

Far(id) == IF id = Aditya THEN Manika ELSE Aditya

\* The instance of `id` becomes w, and what it handed to its channel is in
\* flight to the peer if the peer's channel is subscribed (a broadcast reaches
\* the clients joined when it is sent, the sender excepted); `base` is the wire
\* the step starts from.
Put(id, w, base) ==
    /\ IF id = LocalIdentity
       THEN room' = w /\ other' = other
       ELSE other' = w /\ room' = room
    /\ wire' = IF Side(Far(id)).connected
               THEN [base EXCEPT ![Far(id)] = @ \o w.sent]
               ELSE base

PairInit ==
    /\ \/ /\ room = NewRoom(Aditya, "cloud", NoFile)
          /\ other = NewRoom(Manika, "cloud", NoFile)
       \/ \E f \in LocalFiles :
              /\ room = NewRoom(Aditya, "local", f)
              /\ other = NewRoom(Manika, "local", f)
    /\ wire = NoWire

\* SUBSCRIBED at one end; `late` tells whether the peer was connected before.
PairSubscribed(id) ==
    /\ Side(id).channel \in Side(id).live
    /\ ~Side(id).connected
    /\ Put(id, OnSubscribed(Begin(Side(id),
                                  [type |-> "subscribed", sender |-> "",
                                   late |-> Side(Far(id)).connected])), wire)

PairStreamReady(id) ==
    /\ ~Side(id).mounted
    /\ Side(id).mode = "cloud"
    /\ Put(id, [Begin(Side(id), Tag("stream_ready")) EXCEPT !.mounted = TRUE],
           wire)

\* A playback_state of the peer of `id` with its position and `playing` or
\* `paused`.
IsSnapshot(id, data) ==
    /\ data.type = "playback_state"
    /\ data.sender = Far(id)
    /\ data.state \in {"playing", "paused"}
    /\ data.time \in Times

\* The oldest broadcast in flight to `id` reaches its channel's callback.
PairDeliver(id, now) ==
    /\ wire[id] # <<>>
    /\ Side(id).channel \in Side(id).live
    /\ LET data == Head(wire[id])
           w == OnBroadcast(Begin(Side(id), data), data, now)
       IN  Put(id, [w EXCEPT !.snapshot = @ \/ IsSnapshot(id, data)],
               [wire EXCEPT ![id] = Tail(@)])

\* The user presses play or pause, at a moment when nothing is in flight.
PairTogglePlay(id, now) ==
    /\ Side(id).mounted
    /\ wire = NoWire
    /\ Put(id, togglePlay(Begin(Side(id), Tag("user_toggle")), now), wire)

PairSuppressTimeout(id) ==
    /\ Side(id).timers > 0
    /\ Put(id, [Begin(Side(id), Tag("suppress_timeout")) EXCEPT
                    !.suppressEvents = FALSE, !.timers = @ - 1], wire)

PairNext ==
    \E id \in Identities :
        \/ PairSubscribed(id)
        \/ PairStreamReady(id)
        \/ \E now \in Stamps : PairDeliver(id, now)
        \/ \E now \in Stamps : PairTogglePlay(id, now)
        \/ PairSuppressTimeout(id)

PairSpec == PairInit /\ [][PairNext]_vars

\* What the platform schedules happens: a status callback, the stream URL, a
\* delivery, a time-out; the user need not act.
PairFairness ==
    \A id \in Identities :
        /\ WF_vars(PairSubscribed(id))
        /\ WF_vars(PairStreamReady(id))
        /\ WF_vars(\E now \in Stamps : PairDeliver(id, now))
        /\ WF_vars(PairSuppressTimeout(id))

PairFairSpec == PairSpec /\ PairFairness

\* ================================================================ properties

FromPeer(type) ==
    /\ room.last.type = type
    /\ room.last.sender # ""
    /\ room.last.sender # room.identity

Seeks(cmds) == SelectSeq(cmds, LAMBDA c : c.op = "seekTo")
Plays(cmds) == SelectSeq(cmds, LAMBDA c : c.op = "play")
Pauses(cmds) == SelectSeq(cmds, LAMBDA c : c.op = "pause")

\* C1: a received broadcast whose sender is the local identity, of any of the
\* seven types, invokes no handler, issues no player command, hands nothing to
\* the channel and leaves the instance's state as it was.
C1_SelfEchoSuppressed ==
    [][room'.last.sender = room'.identity =>
          /\ State(room') = State(room)
          /\ room'.invoked = <<>>
          /\ room'.cmds = <<>>
          /\ room'.sent = <<>>]_vars

\* C1 witness: each of the seven types has been looped back; shown for a
\* playback_state arriving at a mounted, paused player.
C1_Witness ==
    /\ room.last = [type |-> "playback_state", sender |-> room.identity]
    /\ room.mounted
    /\ room.paused
    /\ room.cmds = <<>>

\* C2: on a peer's playback_state with state = playing and time = t, the player
\* (when mounted) receives exactly seekTo(t) then play(); with no player
\* mounted no command is issued.
C2_PlayingSeeksThenPlays ==
    (FromPeer("playback_state") /\ room.last.state = "playing") =>
        room.cmds = IF room.pre.mounted
                    THEN <<Cmd("seekTo", room.last.time), Cmd("play", NoTime)>>
                    ELSE <<>>

C2_Witness ==
    /\ FromPeer("playback_state")
    /\ room.last.state = "playing"
    /\ room.last.time = 500
    /\ room.pre.mounted
    /\ room.pre.paused
    /\ room.pre.currentTime = 0
    /\ room.cmds = <<Cmd("seekTo", 500), Cmd("play", NoTime)>>
    /\ ~room.paused
    /\ room.currentTime = 500

\* C3: on a peer's playback_state with state = paused and time = t, the player
\* (when mounted) receives exactly pause() then seekTo(t).
C3_PausedPausesThenSeeks ==
    (FromPeer("playback_state") /\ room.last.state = "paused") =>
        room.cmds = IF room.pre.mounted
                    THEN <<Cmd("pause", NoTime), Cmd("seekTo", room.last.time)>>
                    ELSE <<>>

C3_Witness ==
    /\ FromPeer("playback_state")
    /\ room.last.state = "paused"
    /\ room.last.time = 1001
    /\ room.pre.mounted
    /\ ~room.pre.paused
    /\ room.cmds = <<Cmd("pause", NoTime), Cmd("seekTo", 1001)>>
    /\ room.paused
    /\ room.currentTime = 1001

\* C4: on a peer's playback_state with state = seeked and time = t, only
\* seekTo(t) is issued and the player's paused flag is what it was.
C4_SeekedOnlySeeks ==
    (FromPeer("playback_state") /\ room.last.state = "seeked") =>
        /\ room.cmds = IF room.pre.mounted
                       THEN <<Cmd("seekTo", room.last.time)>>
                       ELSE <<>>
        /\ room.paused = room.pre.paused

C4_Witness ==
    /\ FromPeer("playback_state")
    /\ room.last.state = "seeked"
    /\ room.last.time = 500
    /\ room.pre.mounted
    /\ ~room.pre.paused
    /\ room.pre.currentTime = 1001
    /\ ~room.paused
    /\ room.currentTime = 500

\* C5: on a peer's time_sync with remote time r while the player reports l: a
\* drift |l - r| of at most DRIFT_TOLERANCE_MS (500 ms included) issues no seek
\* and leaves the position; a larger drift issues exactly one seekTo(r).
C5_DriftTolerance ==
    (FromPeer("time_sync") /\ room.pre.mounted) =>
        IF Abs(room.pre.currentTime - room.last.time) <= DRIFT_TOLERANCE_MS
        THEN /\ Seeks(room.cmds) = <<>>
             /\ room.currentTime = room.pre.currentTime
        ELSE /\ Seeks(room.cmds) = <<Cmd("seekTo", room.last.time)>>
             /\ room.currentTime = room.last.time

\* C5 witness: a heartbeat exactly 500 ms away from the local position.
C5_Witness ==
    /\ FromPeer("time_sync")
    /\ room.pre.mounted
    /\ room.pre.currentTime = 500
    /\ room.last.time = 0
    /\ room.cmds = <<>>
    /\ room.currentTime = 500

\* C6: on a peer's time_sync, whatever the drift: play() is issued iff the event
\* says playing, the player was paused and neither buffering flag is set;
\* pause() is issued iff the event says paused and the player was playing; and
\* never more than one of them.
C6_TimeSyncPlayPause ==
    (FromPeer("time_sync") /\ room.pre.mounted) =>
        LET wantPlay == /\ room.last.state = "playing"
                        /\ room.pre.paused
                        /\ ~room.pre.peerBuffering
                        /\ ~room.pre.localBuffering
            wantPause == room.last.state = "paused" /\ ~room.pre.paused
        IN  /\ Plays(room.cmds) = IF wantPlay THEN <<Cmd("play", NoTime)>> ELSE <<>>
            /\ Pauses(room.cmds) = IF wantPause THEN <<Cmd("pause", NoTime)>> ELSE <<>>

\* C6 witness: a `playing` heartbeat reaches a paused player during a local
\* stall, with a drift that is corrected.
C6_Witness ==
    /\ FromPeer("time_sync")
    /\ room.last.state = "playing"
    /\ room.pre.mounted
    /\ room.pre.paused
    /\ room.pre.localBuffering
    /\ ~room.pre.peerBuffering
    /\ room.cmds = <<Cmd("seekTo", room.last.time)>>
    /\ room.paused

\* C7: when the local side is buffering and the peer's
\* buffer_state(isBuffering = false) arrives, play() is not issued, the notice
\* is cleared and peerBuffering is false.
C7_BufferingPrecedence ==
    (FromPeer("buffer_state") /\ ~room.last.isBuffering
        /\ room.pre.localBuffering) =>
        /\ Plays(room.cmds) = <<>>
        /\ room.bufferNotice = ""
        /\ ~room.peerBuffering

C7_Witness ==
    /\ FromPeer("buffer_state")
    /\ ~room.last.isBuffering
    /\ room.pre.localBuffering
    /\ room.pre.peerBuffering
    /\ room.pre.mounted
    /\ room.pre.paused
    /\ room.paused
    /\ room.cmds = <<>>

\* C8: in every reachable state, peerBuffering implies that the local player
\* is paused (neither side outruns a stalled peer).
C8_PausedWhilePeerBuffers ==
    (room.peerBuffering /\ room.mounted) => room.paused

\* C9: the same playback_state delivered twice in a row, the second within the
\* suppression window the first opened, produces the player command sequence
\* only once: the duplicate issues no command.
C9_DuplicateIssuesNothing ==
    [][(/\ room.last.type = "playback_state"
        /\ room.last.sender # room.identity
        /\ room.cmds # <<>>
        /\ room.suppressEvents
        /\ room'.last = room.last) => room'.cmds = <<>>]_vars

C11_ConnectEmits ==
    [][/\ (~room.connected /\ room'.connected) =>
              room'.sent =
                  IF room'.mode = "local"
                  THEN <<[type |-> "file_hash", hash |-> room'.localFile.hash,
                          fileName |-> room'.localFile.name,
                          sender |-> room'.identity],
                         [type |-> "request_state", sender |-> room'.identity]>>
                  ELSE <<[type |-> "request_state", sender |-> room'.identity]>>
       /\ (/\ ~room'.connected
           /\ room'.last.type \in {"deps_change", "unmount", "CHANNEL_ERROR",
                                    "TIMED_OUT", "CLOSED"}) =>
              room'.sent = <<>>]_vars

\* C11 witness: the second channel of a local-file room reports SUBSCRIBED, and
\* the file hash and the request go out in that order.
C11_Witness ==
    /\ room.last.type = "SUBSCRIBED"
    /\ room.connected
    /\ room.mode = "local"
    /\ room.created = 2
    /\ Len(room.sent) = 2
    /\ room.sent[1].type = "file_hash"
    /\ room.sent[2].type = "request_state"

\* The instance of `id` has just become connected, the peer being connected
\* already.
LateJoin(id) ==
    /\ Side(id).last.type = "subscribed"
    /\ Side(id).last.late

\* The instance of `id` has received the peer's playback_state with its
\* position and `playing` or `paused`.
GotSnapshot(id) == Side(id).snapshot

\* The request_state of `id` has just reached the peer, whose player is mounted.
Asked(id) ==
    /\ Side(Far(id)).last = [type |-> "request_state", sender |-> id]
    /\ Side(Far(id)).pre.mounted

Mismatch(w) ==
    /\ w.last.type = "file_hash"
    /\ w.last.sender = Peer
    /\ w.mode = "local"
    /\ w.last.hash # w.localFile.hash

Match(w) ==
    /\ w.last.type = "file_hash"
    /\ w.last.sender = Peer
    /\ w.mode = "local"
    /\ w.last.hash = w.localFile.hash

\* C13 as stated: in local-file mode the peer's file_hash with a different
\* hash sets the mismatch warning, and a warning that is set stays set through
\* every step that is not the user's Dismiss.
C13_WarningUntilDismissed ==
    [][/\ Mismatch(room') =>
              room'.hashWarning = [sender |-> room'.last.sender,
                                   fileName |-> room'.last.fileName]
       /\ (room.hashWarning # NoWarning /\ room'.last.type # "dismiss") =>
              room'.hashWarning # NoWarning]_vars

\* C13, amended: in local-file mode the peer's file_hash with a different hash
\* sets the mismatch warning (naming that sender and file); a warning that is
\* set is cleared only by the user's Dismiss or by the peer's file_hash with
\* the hash of the local file, and changed only by a further file_hash with a
\* different hash.
C13_WarningUntilDismissedOrVerified ==
    [][/\ Mismatch(room') =>
              room'.hashWarning = [sender |-> room'.last.sender,
                                   fileName |-> room'.last.fileName]
       /\ Match(room') => room'.hashWarning = NoWarning
       /\ (room.hashWarning # NoWarning /\ room'.hashWarning = NoWarning) =>
              (room'.last.type = "dismiss" \/ Match(room'))
       /\ (room.hashWarning # NoWarning
              /\ room'.hashWarning \notin {NoWarning, room.hashWarning}) =>
              Mismatch(room')
       /\ (room.hashWarning = NoWarning /\ room'.hashWarning # NoWarning) =>
              Mismatch(room')]_vars

\* C13 witness: the warning set by a differing hash is still there after the
\* peer's next broadcast, a buffer_state.
C13_Witness ==
    /\ room.mode = "local"
    /\ room.hashWarning = [sender |-> Peer, fileName |-> "movie.mp4"]
    /\ FromPeer("buffer_state")

\* C14: in local-file mode the peer's file_hash with the hash of the local file
\* clears the mismatch warning and surfaces the success notice, and the same
\* file_hash received again right after does not surface the notice again: no
\* further notification time-out is started and the notice is left as it is.
C14_VerifiedOnce ==
    [][/\ Match(room') => room'.hashWarning = NoWarning
       /\ (Match(room') /\ ~Match(room)) =>
              room'.notification = [text |-> "File verified", who |-> Peer]
       /\ (Match(room) /\ room'.last = room.last) =>
              /\ room'.notification = room.notification
              /\ room'.notifTimers = room.notifTimers]_vars

\* One of the engine's emit functions has just been called.
Emitted(w) ==
    w.last.type \in {"emit_playback_state", "emit_buffer_state",
                     "emit_time_sync", "emit_chat_message",
                     "emit_chat_ui_state", "emit_request_state",
                     "emit_file_hash"}

\* C15: an emit function called while no subscription is open (connected is
\* false: before SUBSCRIBED, or after the clean-up) hands nothing to the
\* channel.
C15_EmitNoOpUnlessOpen ==
    (Emitted(room) /\ ~room.connected) => room.sent = <<>>

\* C16: while the room key or the identity is empty there is no channel held,
\* no channel subscribed, none created or subscribed in the step that led
\* here, connected is false, and nothing has been handed to a channel.
C16_NoKeyNoChannel ==
    (room.videoId = "" \/ room.identity = "") =>
        /\ room.channel = NoChannel
        /\ room.live = {}
        /\ ~room.connected
        /\ \A i \in 1..Len(room.ops) : room.ops[i].op = "unsubscribe"
        /\ room.sent = <<>>
        /\ room.tracked = <<>>

\* C16 witness: the room key has become empty after a first subscription, and
\* emitPlaybackState is called for a non-empty identity.
C16_Witness ==
    /\ room.videoId = ""
    /\ room.identity = Aditya
    /\ room.created = 1
    /\ room.last.type = "emit_playback_state"
    /\ room.sent = <<>>

\* C17: at most one channel of the instance is subscribed at any moment, and it
\* is the one created last; the handle held is null or that channel; and in a
\* step that ends one subscription and starts another, the unsubscribe comes
\* before the creation of the new channel.
C17_OneSubscription ==
    /\ Cardinality(room.live) <= 1
    /\ room.live \subseteq {room.created}
    /\ room.channel \in {NoChannel} \cup room.live
    /\ \A i, j \in 1..Len(room.ops) :
           (i < j /\ room.ops[j].op = "unsubscribe") =>
               room.ops[i].op = "unsubscribe"

\* C17 witness: the room key or the identity changed; channel 1 was
\* unsubscribed, then channel 2 created and subscribed.
C17_Witness ==
    /\ room.last.type = "deps_change"
    /\ room.ops = <<Op("unsubscribe", 1), Op("channel", 2), Op("subscribe", 2)>>
    /\ room.live = {2}
    /\ room.channel = 2
    /\ ~room.connected

\* C18: connected goes from false to true only in a step in which the
\* subscribe callback reports SUBSCRIBED; that step tracks the local presence
\* {identity, online: true}; a step reporting CHANNEL_ERROR, TIMED_OUT or
\* CLOSED leaves the whole instance as it was (connected included), tracks
\* nothing, creates and subscribes no channel, and sends nothing.
C18_ConnectedOnlyOnSubscribed ==
    [][/\ (~room.connected /\ room'.connected) =>
              room'.last.type = "SUBSCRIBED"
       /\ room'.last.type = "SUBSCRIBED" =>
              /\ room'.connected
              /\ room'.tracked = <<[identity |-> room'.identity,
                                     online |-> TRUE]>>
              /\ room'.ops = <<>>
       /\ room'.last.type \in {"CHANNEL_ERROR", "TIMED_OUT", "CLOSED"} =>
              /\ State(room') = State(room)
              /\ room'.tracked = <<>>
              /\ room'.ops = <<>>
              /\ room'.sent = <<>>]_vars

\* C18 witness: TIMED_OUT was reported to an instance that is not connected,
\* and it is still not connected, with its one channel and nothing tracked.
C18_Witness ==
    /\ room.last.type = "TIMED_OUT"
    /\ ~room.connected
    /\ room.created = 1
    /\ room.live = {1}
    /\ room.tracked = <<>>

\* C19: a presence join or leave whose key is not the local identity hands
\* onPresenceChange exactly one PresenceState, {identity: key, online: true}
\* for a join and {identity: key, online: false} for a leave; one whose key is
\* the local identity hands it nothing; and no other step surfaces a
\* PresenceState.
C19_PresenceOnlyForPeer ==
    IF room.last.type \in {"presence_join", "presence_leave"}
           /\ room.last.key # room.identity
    THEN /\ room.surfaced = <<[identity |-> room.last.key,
                                online |-> (room.last.type = "presence_join")]>>
         /\ room.invoked = <<"onPresenceChange">>
    ELSE /\ room.surfaced = <<>>
         /\ "onPresenceChange" \notin {room.invoked[i] : i \in 1..Len(room.invoked)}

\* C19 witness: the peer's leave is surfaced as offline.
C19_Witness ==
    /\ room.last.type = "presence_leave"
    /\ room.last.key = Manika
    /\ room.identity = Aditya
    /\ room.surfaced = <<[identity |-> Manika, online |-> FALSE]>>
    /\ ~room.peerOnline
    /\ room.peerName = Manika

\* C20: a received broadcast whose payload is absent, of a kind the switch does
\* not know, or of a known kind without one of its required fields invokes no
\* handler, issues no player command, sends nothing and leaves the instance as
\* it was.
C20_OddPayloadDiscarded ==
    [][room'.last \in OddPayloads =>
          /\ State(room') = State(room)
          /\ room'.invoked = <<>>
          /\ room'.cmds = <<>>
          /\ room'.sent = <<>>]_vars

\* ---------------------------------------------------------------- heartbeat

TimeSyncs(sent) == SelectSeq(sent, LAMBDA e : e.type = "time_sync")

\* C21: a heartbeat tick hands exactly one time_sync to the channel if the
\* player exists and is playing at the tick, and nothing otherwise; every
\* time_sync handed to the channel comes from such a tick, carries state
\* "playing" and the player's position at the tick; none is emitted while the
\* player is paused or absent.
C21_HeartbeatOnlyWhilePlaying ==
    /\ room.last.type = "heartbeat" =>
          IF room.pre.mounted /\ ~room.pre.paused
          THEN /\ Len(room.sent) = 1
               /\ room.sent[1].type = "time_sync"
          ELSE room.sent = <<>>
    /\ \A i \in 1..Len(room.sent) :
          room.sent[i].type = "time_sync" =>
             /\ room.last.type = "heartbeat"
             /\ room.pre.mounted
             /\ ~room.pre.paused
             /\ room.sent[i].state = "playing"
             /\ room.sent[i].time = room.pre.currentTime
             /\ room.sent[i].sender = room.identity

\* A tick while playing at a position other than the start emitted; a tick
\* while the mounted player is paused is covered by C21_WitnessPaused.
C21_Witness ==
    /\ room.last.type = "heartbeat"
    /\ room.pre.mounted
    /\ ~room.pre.paused
    /\ room.pre.currentTime > 0
    /\ TimeSyncs(room.sent) # <<>>

C21_WitnessPaused ==
    /\ room.last.type = "heartbeat"
    /\ room.pre.mounted
    /\ room.pre.paused
    /\ room.pre.currentTime > 0
    /\ room.sent = <<>>

\* --------------------------------------------------------- heartbeat period

\* The heartbeat against the clock, for a room that plays throughout: time
\* passes in steps of a third of the interval, the interval fires when it is
\* due, and meanwhile chat, chat-panel, file and heartbeat events of the peer
\* arrive, presence changes and notifications run out.

Quantum == TIME_SYNC_INTERVAL_MS \div 3
MaxGap == 2 * TIME_SYNC_INTERVAL_MS

\* WatchRoom's useState values and the engine's `connected`.
ReactState(w) ==
    <<w.mounted, w.peerOnline, w.peerName, w.peerBuffering, w.bufferNotice,
      w.peerChatOpen, w.messages, w.notification, w.hashWarning, w.connected>>

\* Mutant: the engine object is the same on every render, and the heartbeat
\* effect does not run again.
Render_StableEngine(before, after) == after

\* A state change renders WatchRoom again: useSyncEngine returns a new object,
\* so the heartbeat effect, whose dependency is that object, runs again.
Render(before, after) ==
    IF ReactState(after) # ReactState(before)
    THEN HeartbeatEffect(after)
    ELSE after

\* A room that is subscribed, has its player and has just been started by the
\* user.
PlayingRoom(mode, file) ==
    LET w == togglePlay([OnSubscribed(NewRoom(LocalIdentity, mode, file))
                             EXCEPT !.mounted = TRUE], 1)
    IN  Begin([w EXCEPT !.pending = {}], Tag("playing"))

BeatInit ==
    /\ \/ room = PlayingRoom("cloud", NoFile)
       \/ \E f \in LocalFiles : room = PlayingRoom("local", f)
    /\ other = NoRoom
    /\ wire = NoWire

\* Time passes, no further than the moment the interval is due.
TimePasses ==
    /\ room.elapsed + Quantum <= TIME_SYNC_INTERVAL_MS
    /\ room' = [Begin(room, Tag("time_passes")) EXCEPT
                   !.elapsed = @ + Quantum,
                   !.sinceSync = IF @ + Quantum > MaxGap THEN MaxGap
                                 ELSE @ + Quantum]
    /\ Alone

\* The interval is due: its callback runs, and setInterval counts again.
BeatDue(now) ==
    /\ room.elapsed >= TIME_SYNC_INTERVAL_MS
    /\ LET w == OnHeartbeat(Begin(room, Tag("heartbeat")), now)
       IN  room' = [w EXCEPT !.elapsed = 0,
                             !.sinceSync = IF w.sent # <<>> THEN 0 ELSE @]
    /\ Alone

\* Events of the peer that leave the player playing.
BeatEvents ==
    {e \in SyncEvent :
        /\ e.sender = Peer
        /\ e.type \in {"chat_message", "chat_ui_state", "file_hash", "time_sync"}
        /\ e.type = "time_sync" => e.state = "playing"}

\* The interval is not due yet: a timer that is due runs first.
NotDue == room.elapsed < TIME_SYNC_INTERVAL_MS

BeatReceive(data, now) ==
    /\ NotDue
    /\ data.type = "chat_message" => Len(room.messages) < MaxMessages
    /\ room' = Render(room, OnBroadcast(Begin(room, Received(data)), data, now))
    /\ Alone

BeatPresence(key, online) ==
    /\ NotDue
    /\ room' = Render(room,
                   OnPresence(Begin(room, [type |-> "presence", sender |-> "",
                                           key |-> key]), key, online))
    /\ Alone

BeatNotificationTimeout ==
    /\ NotDue
    /\ room.notifTimers > 0
    /\ room' = Render(room,
                   [Begin(room, Tag("notification_timeout")) EXCEPT
                       !.notification = NoNotification, !.notifTimers = @ - 1])
    /\ Alone

\* SUBSCRIBED is reported again.
BeatStatus(status) ==
    /\ NotDue
    /\ room' = Render(room, OnSubscribeStatus(Begin(room, Tag(status)), status))
    /\ Alone

BeatNext ==
    \/ TimePasses
    \/ \E now \in Stamps : BeatDue(now)
    \/ \E data \in BeatEvents, now \in Stamps : BeatReceive(data, now)
    \/ \E key \in Identities, online \in BOOLEAN : BeatPresence(key, online)
    \/ BeatNotificationTimeout
    \/ \E status \in {"SUBSCRIBED", "CHANNEL_ERROR"} : BeatStatus(status)

BeatSpec == BeatInit /\ [][BeatNext]_vars

\* C22: while the session is open and the player keeps playing, no more than
\* TIME_SYNC_INTERVAL_MS pass between two time_sync emissions (or between the
\* start of playing and the first), whatever else happens in between.
C22_HeartbeatPeriod ==
    (room.mounted /\ ~room.paused) => room.sinceSync <= TIME_SYNC_INTERVAL_MS

\* ------------------------------------------------------------------ teardown

\* Mutant: the interval is left running when the room is left.
HeartbeatCleanup_KeepInterval(w) == w

\* The clean-up of the heartbeat effect: clearInterval.
HeartbeatCleanup(w) == [w EXCEPT !.interval = FALSE]

\* WatchRoom unmounts: the player goes with it, and the clean-ups of the
\* engine's subscription effect and of the heartbeat effect run.
OnRoomUnmount(w) ==
    [HeartbeatCleanup(Cleanup(w)) EXCEPT !.alive = FALSE, !.mounted = FALSE]

RoomUnmount ==
    /\ room.alive
    /\ room' = OnRoomUnmount(Begin(room, Tag("unmount")))
    /\ Alone

\* The heartbeat interval fires, if it is set.
IntervalTick(now) ==
    /\ room.interval
    /\ room' = OnHeartbeat(Begin(room, Tag("heartbeat")), now)
    /\ Alone

\* The sessions of one WatchRoom: its room key changes while it is mounted,
\* the channel reports statuses, the heartbeat ticks, the user plays and
\* pauses, the peer asks for the state, and at last the room is left.
TeardownInit ==
    /\ \E videoId \in RoomKeys :
           \/ room = Mount(Fresh(videoId, LocalIdentity, "cloud", NoFile))
           \/ \E f \in LocalFiles :
                  room = Mount(Fresh(videoId, LocalIdentity, "local", f))
    /\ other = NoRoom
    /\ wire = NoWire

TeardownNext ==
    \/ \E status \in {"SUBSCRIBED", "CLOSED"} : SubscribeStatus(status)
    \/ \E videoId \in RoomKeys : DepsChange(videoId, LocalIdentity)
    \/ RoomUnmount
    \/ \E now \in Stamps : IntervalTick(now)
    \/ room.alive /\ StreamReady
    \/ \E now \in Stamps : UserTogglePlay(now)
    \/ \E data \in RequestStateEvents, now \in Stamps : Receive(data, now)

TeardownSpec == TeardownInit /\ [][TeardownNext]_vars

\* C23: tearing a session down closes its subscription before the next one
\* opens (at most the current channel is open, and a change of session
\* unsubscribes before it creates a channel), and cancels the heartbeat when
\* the room is left; after that no heartbeat tick fires, and no event
\* (heartbeat, player callback or handler reply) is ever handed to a channel
\* that has been torn down.
C23_TeardownCancels ==
    /\ room.live \subseteq {room.channel}
    /\ room.last.type \in {"deps_change", "unmount"} =>
          /\ room.ops # <<>>
          /\ room.ops[1].op = "unsubscribe"
          /\ room.ops[1].channel \notin room.live
    /\ \A i \in 1..Len(room.sentOn) : room.sentOn[i] \in room.live
    /\ ~room.alive =>
          /\ room.live = {}
          /\ room.channel = NoChannel
          /\ ~room.interval
          /\ room.sent = <<>>
          /\ room.last.type # "heartbeat"

\* Events were handed to the channel of a second session, after the first
\* one was torn down.
C23_Witness ==
    /\ room.created > 1
    /\ room.sent # <<>>
    /\ room.last.type \in {"heartbeat", "user_toggle", "request_state"}

C23_WitnessLeft ==
    /\ ~room.alive
    /\ room.created > 1
    /\ room.last.type = "unmount"
    /\ room.pre.mounted
    /\ ~room.pre.paused

\* --------------------------------------------------------- echo suppression

PlaybackStates(sent) == SelectSeq(sent, LAMBDA e : e.type = "playback_state")

\* C24: the play, pause or seeked event of the element that follows a
\* programmatic play(), pause() or seekTo() never makes the room emit a
\* playback_state, whenever the event fires.  (The events dispatched by
\* MediaEvent are those queued by programmatic commands; the user's own
\* are dispatched with the user's action.)
C24_EchoSuppressed ==
    room.last.type \in {"media_play", "media_pause", "media_seeked"} =>
        PlaybackStates(room.sent) = <<>>

\* ---------------------------------------------------------------------- chat

MaxTranscript == 3

ChatTexts == {"hi", "yo"}

\* handleSendMessage(text): the message is broadcast and appended to the
\* local transcript.
handleSendMessage(w, text, now) ==
    [emitChatMessage(w, text, now) EXCEPT
        !.messages = Append(@, [text |-> text, sender |-> w.identity,
                                timestamp |-> now])]

SendMessage(text, now) ==
    /\ Len(room.messages) < MaxTranscript
    /\ room' = handleSendMessage(
                   Begin(room, [type |-> "send_message", sender |-> "",
                                text |-> text, timestamp |-> now]),
                   text, now)
    /\ Alone

\* Chat messages and chat-panel events of either identity (the local one's
\* are looped back by the transport).
ChatEvents ==
    [type : {"chat_message"}, text : ChatTexts, sender : Identities,
     timestamp : Stamps]
        \cup ChatUiStateEvents

ChatReceive(data, now) ==
    /\ room.channel \in room.live
    /\ room.connected
    /\ data.type = "chat_message" => Len(room.messages) < MaxTranscript
    /\ room' = OnBroadcast(Begin(room, Received(data)), data, now)
    /\ Alone

\* The session as the chat sees it: messages sent and received, the peer's
\* chat panel, presence, notifications running out and the subscription.
ChatNext ==
    \/ \E text \in ChatTexts, now \in Stamps : SendMessage(text, now)
    \/ \E data \in ChatEvents, now \in Stamps : ChatReceive(data, now)
    \/ Subscribed
    \/ \E key \in Identities : PresenceJoin(key)
    \/ \E key \in Identities : PresenceLeave(key)
    \/ NotificationTimeout

ChatSpec == Init /\ [][ChatNext]_vars

IsPrefix(s, t) == Len(s) <= Len(t) /\ SubSeq(t, 1, Len(s)) = s

\* C25: the transcript only grows at its end: a chat_message of the peer
\* appends its text, sender and timestamp, a local send appends the text under
\* the local identity, and every other step leaves the transcript as it is.
C25_TranscriptAppendOnly ==
    [][/\ IsPrefix(room.messages, room'.messages)
       /\ IF room'.last.type = "chat_message" /\ room'.last.sender = Peer
          THEN room'.messages =
                   Append(room.messages,
                          [text |-> room'.last.text, sender |-> Peer,
                           timestamp |-> room'.last.timestamp])
          ELSE IF room'.last.type = "send_message"
          THEN room'.messages =
                   Append(room.messages,
                          [text |-> room'.last.text, sender |-> room.identity,
                           timestamp |-> room'.last.timestamp])
          ELSE room'.messages = room.messages]_vars

\* A transcript of three entries, received and sent interleaved, with
\* different texts.
C25_Witness ==
    /\ Len(room.messages) = 3
    /\ room.messages[1].sender = Peer
    /\ room.messages[2].sender = LocalIdentity
    /\ room.messages[3].sender = Peer
    /\ room.messages[1].text # room.messages[3].text
    /\ room.last.type = "chat_message"

\* --------------------------------------------------------------- convergence

\* Two subscribed rooms with their players, left as the users' actions put
\* them while the peer was not subscribed yet or the broadcast was lost; from
\* there the users do nothing and no player stalls: the heartbeats tick, what
\* they emit is delivered in order, the events queued by programmatic commands
\* fire and the suppression time-outs run out.

MaxInFlight == 1

\* The room of `id`, subscribed and with its player, after the user seeked to
\* `time` and, unless `paused`, pressed play; none of it reached the peer.
SettledRoom(id, paused, time) ==
    LET w0 == [OnSubscribed(NewRoom(id, "cloud", NoFile)) EXCEPT
                   !.mounted = TRUE]
        w1 == IF time = w0.currentTime THEN w0
              ELSE onSeekedEvent([w0 EXCEPT !.currentTime = time], 1)
        w2 == IF paused THEN w1 ELSE togglePlay(w1, 1)
    IN  Begin([w2 EXCEPT !.pending = {}], Tag("settled"))

ConvergeInit ==
    /\ \E paused \in BOOLEAN, time \in Times :
           room = SettledRoom(Aditya, paused, time)
    /\ \E paused \in BOOLEAN, time \in Times :
           other = SettledRoom(Manika, paused, time)
    /\ wire = NoWire

PairHeartbeat(id, now) ==
    /\ Side(id).interval
    /\ Len(wire[Far(id)]) < MaxInFlight
    /\ Put(id, OnHeartbeat(Begin(Side(id), Tag("heartbeat")), now), wire)

PairMediaEvent(id, kind, now) ==
    /\ Side(id).mounted
    /\ kind \in Side(id).pending
    /\ Len(wire[Far(id)]) < MaxInFlight
    /\ Put(id, OnMediaEvent([Begin(Side(id), Tag("media_" \o kind)) EXCEPT
                                 !.pending = @ \ {kind}], kind, now), wire)

ConvergeNext ==
    \E id \in Identities :
        \/ \E now \in Stamps : PairHeartbeat(id, now)
        \/ \E now \in Stamps : PairDeliver(id, now)
        \/ \E kind \in {"play", "pause", "seeked", "playing"}, now \in Stamps :
               PairMediaEvent(id, kind, now)
        \/ PairSuppressTimeout(id)

ConvergeSpec == ConvergeInit /\ [][ConvergeNext]_vars

\* The interval keeps ticking, what is in flight is delivered, queued media
\* events fire and time-outs run out.
ConvergeFairness ==
    \A id \in Identities :
        /\ WF_vars(\E now \in Stamps : PairHeartbeat(id, now))
        /\ WF_vars(\E now \in Stamps : PairDeliver(id, now))
        /\ WF_vars(\E kind \in {"play", "pause", "seeked", "playing"},
                      now \in Stamps : PairMediaEvent(id, kind, now))
        /\ WF_vars(PairSuppressTimeout(id))

ConvergeFairSpec == ConvergeSpec /\ ConvergeFairness

Converged ==
    /\ room.paused = other.paused
    /\ Abs(room.currentTime - other.currentTime) <= DRIFT_TOLERANCE_MS

\* C26: with no further user action and no stall, two connected peers
\* eventually agree on playing or paused with positions no more than 500 ms
\* apart, and stay so.
C26_ConvergesByHeartbeat == <>[]Converged

\* ---------------------------------------------------------- order of arrival

\* Timestamps that let a later arrival carry the earlier stamp.
ApplyStamps == {1, 2}

\* The peer's playback_state events, with either stamp.
ApplyEvents ==
    [type : {"playback_state"}, state : {"playing", "paused", "seeked"},
     time : Times, sender : {Peer}, timestamp : ApplyStamps]

\* A playback_state of the peer arrives; `prior` keeps what the step before
\* was.
ApplyReceive(data, now) ==
    /\ room.channel \in room.live
    /\ room.connected
    /\ room' = OnBroadcast([Begin(room, Received(data)) EXCEPT
                                !.prior = room.last], data, now)
    /\ Alone

\* Playback events of the peer in any order and with any stamps, between the
\* user's own play and pause, playback moving on and time-outs running out.
ApplyNext ==
    \/ \E data \in ApplyEvents, now \in Stamps : ApplyReceive(data, now)
    \/ Subscribed
    \/ StreamReady
    \/ \E now \in Stamps : UserTogglePlay(now)
    \/ PlaybackAdvance
    \/ SuppressTimeout

ApplySpec == Init /\ [][ApplyNext]_vars

PeerPlayback(e) == e.type = "playback_state" /\ e.sender = Peer

\* C27: of two playback_state events of the peer applied one after the other
\* by a mounted player, the second decides: the position is its time, the
\* player plays after `playing` and is paused after `paused` (after `seeked`
\* it keeps the play state it had), whatever the two timestamps and whatever
\* the position and state before; the second is never dropped.
C27_LastAppliedWins ==
    (PeerPlayback(room.prior) /\ PeerPlayback(room.last) /\ room.pre.mounted) =>
        /\ room.currentTime = room.last.time
        /\ room.last.state = "playing" => ~room.paused
        /\ room.last.state = "paused" => room.paused
        /\ room.last.state = "seeked" => room.paused = room.pre.paused
        /\ Seeks(room.cmds) = <<Cmd("seekTo", room.last.time)>>

\* The second event carries the earlier stamp and contradicts the first.
C27_Witness ==
    /\ PeerPlayback(room.prior)
    /\ PeerPlayback(room.last)
    /\ room.pre.mounted
    /\ room.prior.timestamp > room.last.timestamp
    /\ room.prior.state = "playing"
    /\ room.last.state = "paused"
    /\ room.prior.time > room.last.time
    /\ room.paused

\* ------------------------------------------------------------ peer buffering

\* C28: a buffer_state(isBuffering = true) of the peer sets peerBuffering,
\* sets the notice that names the sender and issues pause() (and nothing else)
\* to the player, whether it plays or is paused and whether or not the local
\* side is buffering; a room whose player is not mounted sets the flag and the
\* notice only.  A buffer_state(isBuffering = false) clears peerBuffering and
\* the notice.
C28_PeerBufferingEffects ==
    FromPeer("buffer_state") =>
        IF room.last.isBuffering
        THEN /\ room.peerBuffering
             /\ room.bufferNotice = room.last.sender
             /\ room.cmds = IF room.pre.mounted
                            THEN <<Cmd("pause", NoTime)>> ELSE <<>>
             /\ room.pre.mounted => room.paused
        ELSE /\ ~room.peerBuffering
             /\ room.bufferNotice = ""

\* The peer stalls while the local player is paused and stalled itself.
C28_Witness ==
    /\ FromPeer("buffer_state")
    /\ room.last.isBuffering
    /\ room.pre.mounted
    /\ room.pre.paused
    /\ room.pre.localBuffering
    /\ ~room.pre.peerBuffering
    /\ room.cmds = <<Cmd("pause", NoTime)>>

\* The peer stalls while the local player plays.
C28_WitnessPlaying ==
    /\ FromPeer("buffer_state")
    /\ room.last.isBuffering
    /\ room.pre.mounted
    /\ ~room.pre.paused
    /\ room.paused
    /\ room.peerBuffering

\* --------------------------------------------------------------- duplicates

\* Every event of the peer, of all seven kinds.
PeerEvents == {e \in SyncEvent : e.sender = Peer}

\* The room while the peer's events arrive, each possibly more than once,
\* between the user's play and pause and stalls of the local player.
DupNext ==
    \/ \E data \in PeerEvents, now \in Stamps : ChatReceive(data, now)
    \/ Subscribed
    \/ StreamReady
    \/ \E now \in Stamps : UserTogglePlay(now)
    \/ \E now \in Stamps : VideoWaiting(now)

DupSpec == Init /\ [][DupNext]_vars

\* The local state the peer's events act on.
Local(w) ==
    [currentTime |-> w.currentTime, paused |-> w.paused,
     localBuffering |-> w.localBuffering, peerBuffering |-> w.peerBuffering,
     bufferNotice |-> w.bufferNotice, hashWarning |-> w.hashWarning,
     peerChatOpen |-> w.peerChatOpen, messages |-> w.messages]

\* C29: an event of the peer, of any kind, delivered a second time directly
\* after the first leaves the local state as the first delivery left it.
C29_HandlersIdempotent ==
    [][(/\ room.last.sender = Peer
        /\ room.last.type \in {"playback_state", "buffer_state", "time_sync",
                               "chat_message", "chat_ui_state",
                               "request_state", "file_hash"}
        /\ room'.last = room.last) => Local(room') = Local(room)]_vars

\* The same for the six kinds other than chat_message.
IdempotentButChat ==
    [][(/\ room.last.sender = Peer
        /\ room.last.type \in {"playback_state", "buffer_state", "time_sync",
                               "chat_ui_state", "request_state", "file_hash"}
        /\ room'.last = room.last) => Local(room') = Local(room)]_vars

\* ------------------------------------------------------------- user actions

\* C30: the user's play, pause or seek makes the room emit exactly one
\* playback_state, with state playing, paused or seeked and the player's
\* position, also while the suppression window of a programmatic command is
\* running.
C30_UserActionEmitsOnce ==
    /\ room.last.type = "user_toggle" =>
          /\ Len(PlaybackStates(room.sent)) = 1
          /\ PlaybackStates(room.sent)[1].state =
                 (IF room.pre.paused THEN "playing" ELSE "paused")
          /\ PlaybackStates(room.sent)[1].time = room.currentTime
    /\ room.last.type = "user_seek" =>
          /\ Len(PlaybackStates(room.sent)) = 1
          /\ PlaybackStates(room.sent)[1].state = "seeked"
          /\ PlaybackStates(room.sent)[1].time = room.currentTime

\* -------------------------------------------------------- suppression window

\* C31: while the time-out of any programmatic command is still to fire, that
\* is, while the window of some command is running, suppression is on: the
\* time-out of one command does not end the window of another.
C31_FullWindow ==
    room.timers > 0 => room.suppressEvents

\* ------------------------------------------------------------ feedback loop

\* Two subscribed rooms with their players; the user at one end presses play
\* or pause or seeks, once, and from there only the machinery runs: what is
\* emitted is delivered, queued media events fire, suppression time-outs run
\* out.  No heartbeat, no stall, no second user action.

Unacted == room.last.type = "settled" /\ other.last.type = "settled"

FirstToggle(id, now) ==
    /\ Unacted
    /\ PairTogglePlay(id, now)

FirstSeek(id, time, now) ==
    /\ Unacted
    /\ Side(id).mounted
    /\ time # Side(id).currentTime
    /\ Put(id, onSeekedEvent([Begin(Side(id), Tag("user_seek")) EXCEPT
                                  !.currentTime = time], now), wire)

FeedbackNext ==
    \E id \in Identities :
        \/ \E now \in Stamps : FirstToggle(id, now)
        \/ \E time \in Times, now \in Stamps : FirstSeek(id, time, now)
        \/ \E now \in Stamps : PairDeliver(id, now)
        \/ \E kind \in {"play", "pause", "seeked", "playing"}, now \in Stamps :
               PairMediaEvent(id, kind, now)
        \/ PairSuppressTimeout(id)

FeedbackSpec == ConvergeInit /\ [][FeedbackNext]_vars

\* What is in flight is delivered, queued media events fire and time-outs run
\* out; the user need not act.
FeedbackFairness ==
    \A id \in Identities :
        /\ WF_vars(\E now \in Stamps : PairDeliver(id, now))
        /\ WF_vars(\E kind \in {"play", "pause", "seeked", "playing"},
                      now \in Stamps : PairMediaEvent(id, kind, now))
        /\ WF_vars(PairSuppressTimeout(id))

FeedbackFairSpec == FeedbackSpec /\ FeedbackFairness

\* C32: after the one user action the exchange of events comes to an end:
\* from some moment on nothing is in flight between the two rooms any more.
C32_ExchangeTerminates == <>[](wire = NoWire)

\* ------------------------------------------------------------ stall recovery

\* Two subscribed rooms playing at the same position.  Either player may run
\* out of data (`waiting`), once and before anything else happens at its end;
\* a player that is still playing gets `playing` when
\* its data is back, a player that was paused meanwhile gets `canplay` only,
\* which VideoPlayer keeps to itself.  The users do nothing.  The media events
\* of programmatic commands fire within their suppression windows here (the
\* time-outs are not followed; late events are followed in ConvergeSpec and
\* FeedbackSpec).

PairWaiting(id, now) ==
    /\ Side(id).mounted
    /\ ~Side(id).paused
    /\ ~Side(id).localBuffering
    /\ Side(id).last.type = "settled"
    /\ Len(wire[Far(id)]) < MaxInFlight
    /\ Put(id, handleBufferingStart(Begin(Side(id), Tag("waiting")), now), wire)

PairRecover(id, now) ==
    /\ Side(id).mounted
    /\ ~Side(id).paused
    /\ Side(id).localBuffering
    /\ Len(wire[Far(id)]) < MaxInFlight
    /\ Put(id, handleBufferingEnd(Begin(Side(id), Tag("recover")), now), wire)

\* handleCanPlay: the data of a paused player is back; nothing is reported to
\* WatchRoom.
PairCanPlay(id) ==
    /\ Side(id).mounted
    /\ Side(id).paused
    /\ Side(id).localBuffering
    /\ Side(id).last.type # "canplay"
    /\ Put(id, Begin(Side(id), Tag("canplay")), wire)

StallInit ==
    /\ \E time \in Times :
           /\ room = SettledRoom(Aditya, FALSE, time)
           /\ other = SettledRoom(Manika, FALSE, time)
    /\ wire = NoWire

StallNext ==
    \E id \in Identities :
        \/ \E now \in Stamps : PairWaiting(id, now)
        \/ \E now \in Stamps : PairRecover(id, now)
        \/ PairCanPlay(id)
        \/ \E now \in Stamps : PairHeartbeat(id, now)
        \/ \E now \in Stamps : PairDeliver(id, now)
        \/ \E kind \in {"play", "pause", "seeked", "playing"}, now \in Stamps :
               PairMediaEvent(id, kind, now)

StallSpec == StallInit /\ [][StallNext]_vars

\* Data comes back, the heartbeat ticks, what is in flight is delivered and
\* queued media events fire; a stall need not happen.
StallFairness ==
    \A id \in Identities :
        /\ WF_vars(\E now \in Stamps : PairRecover(id, now))
        /\ WF_vars(PairCanPlay(id))
        /\ WF_vars(\E now \in Stamps : PairHeartbeat(id, now))
        /\ WF_vars(\E now \in Stamps : PairDeliver(id, now))
        /\ WF_vars(\E kind \in {"play", "pause", "seeked", "playing"},
                      now \in Stamps : PairMediaEvent(id, kind, now))

StallFairSpec == StallSpec /\ StallFairness

\* Both players stalled and each was paused by the other's buffer_state(true).
BothStalled ==
    /\ room.localBuffering /\ room.peerBuffering /\ room.paused
    /\ other.localBuffering /\ other.peerBuffering /\ other.paused

Recovered ==
    /\ ~room.paused /\ ~room.localBuffering /\ ~room.peerBuffering
    /\ ~other.paused /\ ~other.localBuffering /\ ~other.peerBuffering

\* C33: after both players stalled at overlapping times, both rooms return to
\* playing with localBuffering and peerBuffering false, without a user action.
C33_StallRecovery == BothStalled ~> Recovered

\* ------------------------------------------------------------ explicit pause

\* The step that led to this state was an explicit pause: the user's, or a
\* playback_state `paused` of the peer applied by the mounted player.
ExplicitlyPaused(w) ==
    /\ w.mounted
    /\ w.paused
    /\ \/ w.last.type = "user_toggle"
       \/ /\ w.last.type = "playback_state"
          /\ w.last.sender = Peer
          /\ w.last.state = "paused"

\* C34: a player paused by an explicit pause stays paused when the peer's
\* buffer_state(isBuffering = false) arrives next: no play() is issued.
C34_PausePreserved ==
    [][(/\ ExplicitlyPaused(room)
        /\ room'.last.type = "buffer_state"
        /\ room'.last.sender = Peer
        /\ ~room'.last.isBuffering)
          => (room'.paused /\ Plays(room'.cmds) = <<>>)]_vars

\* ---------------------------------------------------------------- connected

\* C35: connected is true only while the current channel is open and
\* subscribed: it implies an open current channel, and it is false once the
\* channel has reported CHANNEL_ERROR, TIMED_OUT or CLOSED.
C35_ConnectedWhileSubscribed ==
    /\ room.connected => room.channel \in room.live
    /\ room.last.type \in {"CHANNEL_ERROR", "TIMED_OUT", "CLOSED"} =>
          ~room.connected

\* ------------------------------------------------------------ chat, sending

\* The engine's life cycle, for every room key and identity the hook may be
\* given, with the user sending chat messages while the room is mounted.
SendNext ==
    \/ \E status \in {"SUBSCRIBED", "CHANNEL_ERROR", "TIMED_OUT", "CLOSED"} :
           SubscribeStatus(status)
    \/ \E videoId \in RoomKeys \cup {""}, identity \in {LocalIdentity, ""} :
           DepsChange(videoId, identity)
    \/ Unmount
    \/ \E text \in ChatTexts, now \in Stamps : room.alive /\ SendMessage(text, now)

SendSpec == EngineInit /\ [][SendNext]_vars

\* C36: a message the user sends is in the local transcript only if it was
\* handed to the channel: after a send the transcript's new last entry has
\* its chat_message among the events handed over.
C36_ShownOnlyIfSent ==
    room.last.type = "send_message" =>
        \E i \in 1..Len(room.sent) :
            /\ room.sent[i].type = "chat_message"
            /\ room.sent[i].text = room.messages[Len(room.messages)].text

\* --------------------------------------------------- frame of peerBuffering

\* The room while the peer's events of every type arrive (those that move the
\* player, for position 0), the peer joins and leaves,
\* the channel reports statuses and the room key changes.
FrameEvents == {e \in FileEvents : e.sender = Peer}

FrameNext ==
    \/ \E data \in FrameEvents, now \in Stamps : Receive(data, now)
    \/ \E status \in {"SUBSCRIBED", "CLOSED"} : SubscribeStatus(status)
    \/ \E videoId \in RoomKeys : DepsChange(videoId, LocalIdentity)
    \/ StreamReady
    \/ \E key \in Identities : PresenceJoin(key)
    \/ \E key \in Identities : PresenceLeave(key)

FrameSpec == Init /\ [][FrameNext]_vars

\* C37: peerBuffering and the waiting-for-peer notice change only in a step
\* that receives a buffer_state of the peer; presence changes, every other
\* kind of event, statuses and a new subscription leave them as they are.
C37_PeerBufferingFrame ==
    [][(\/ room'.peerBuffering # room.peerBuffering
        \/ room'.bufferNotice # room.bufferNotice)
          => (room'.last.type = "buffer_state" /\ room'.last.sender = Peer)]_vars

\* The peer left the room while the local room was waiting for it: the flag
\* and the notice are still set.
C37_Witness ==
    /\ room.last.type = "presence_leave"
    /\ room.last.key = Peer
    /\ room.peerBuffering
    /\ room.bufferNotice = Peer
    /\ ~room.peerOnline

\* A new subscription connected while the room was waiting for the peer.
C37_WitnessReconnect ==
    /\ room.last.type = "SUBSCRIBED"
    /\ room.created > 1
    /\ room.connected
    /\ room.peerBuffering
    /\ room.bufferNotice = Peer

\* ------------------------------------------------ application state (C38)

\* AppProvider holds the application state and AppContent renders one view of
\* it; a WatchRoom exists exactly while view = "watchroom". In AppSpec the
\* variable room holds that state, together with the state of the mounted
\* LocalFileSelector and its pending handleStartWatching continuations.
\* Strings whose content a conversion reads (room names, file names, storage
\* keys) are sequences of character codes; a nullable object is the empty set
\* or a one-element set; null strings that are only compared are "".

\* Longest room name the user types.
MaxName == 3

\* handleStartWatching continuations that can be waiting for their hash.
MaxPending == 1

\* Characters of a room name: a space, a capital, and Latin-1 y-diaeresis.
NameChars == {32, 65, 255}

RECURSIVE NamesUpTo(_)
NamesUpTo(n) ==
    IF n = 0 THEN {<<>>}
    ELSE NamesUpTo(n - 1) \cup
         {Append(s, c) : s \in {t \in NamesUpTo(n - 1) : Len(t) = n - 1},
                         c \in NameChars}

RoomNames == NamesUpTo(MaxName)

\* String.prototype.trim, for the space character.
RECURSIVE trim(_)
trim(s) ==
    IF Len(s) = 0 THEN s
    ELSE IF s[1] = 32 THEN trim(Tail(s))
    ELSE IF s[Len(s)] = 32 THEN trim(SubSeq(s, 1, Len(s) - 1))
    ELSE s

\* String.prototype.toLowerCase on Latin-1: A-Z and the accented capitals
\* move by 32, everything else (y-diaeresis included) stays.
toLowerCase(s) ==
    [i \in 1..Len(s) |->
        IF s[i] \in 65..90 \/ (s[i] \in 192..222 /\ s[i] # 215)
        THEN s[i] + 32 ELSE s[i]]

\* The '=' of base64 padding, after the 64 digits A-Z a-z 0-9 + /.
Pad == 64

\* btoa: three bytes to four base64 digits, padded with '='.
RECURSIVE btoa(_)
btoa(b) ==
    IF Len(b) = 0 THEN <<>>
    ELSE IF Len(b) = 1 THEN
        <<b[1] \div 4, (b[1] % 4) * 16, Pad, Pad>>
    ELSE IF Len(b) = 2 THEN
        <<b[1] \div 4, (b[1] % 4) * 16 + (b[2] \div 16), (b[2] % 16) * 4, Pad>>
    ELSE
        <<b[1] \div 4, (b[1] % 4) * 16 + (b[2] \div 16),
          (b[2] % 16) * 4 + (b[3] \div 64), b[3] % 64>>
            \o btoa(SubSeq(b, 4, Len(b)))

\* [a-zA-Z0-9] are the digits 0..61; '+', '/' and '=' are not.
IsAlphanumeric(d) == d < 62

\* roomId of handleStartWatching:
\* btoa(roomName.trim().toLowerCase()).replace(/[^a-zA-Z0-9]/g, '').
roomIdOf(roomName) == SelectSeq(btoa(toLowerCase(trim(roomName))), IsAlphanumeric)

\* id of listVideos: Buffer.from(key).toString('base64url'), which has no
\* padding and writes '-' and '_' for the digits 62 and 63.
IsDigit(d) == d # Pad
videoIdOf(key) == SelectSeq(btoa(key), IsDigit)

\* Keys of the bucket's videos: "a.mp4" and "b.mp4".
VideoKeys == {<<97, 46, 109, 112, 52>>, <<98, 46, 109, 112, 52>>}

\* The list FileManager shows; AppProvider reads only id of a VideoFile.
Videos == {[key |-> k, id |-> videoIdOf(k)] : k \in VideoKeys}

\* File names the user picks: "A.mp4" and y-diaeresis three times ".mp4".
PickedNames == {<<65, 46, 109, 112, 52>>, <<255, 255, 255, 46, 109, 112, 52>>}

\* file.name.replace(/\.[^/.]+$/, ''): the name without its last extension.
stripExtension(name) ==
    LET dots == {i \in 1..Len(name) : name[i] = 46}
    IN  IF dots = {} THEN name
        ELSE LET last == CHOOSE i \in dots : \A j \in dots : j <= i
             IN  IF last < Len(name) /\ \A j \in (last + 1)..Len(name) : name[j] # 47
                 THEN SubSeq(name, 1, last - 1)
                 ELSE name

\* AppProvider's state before the restore effect, and a LocalFileSelector as
\* it mounts (roomName '', no file, hashing false).
AppFresh ==
    [view |-> "password", identity |-> "", password |-> "", mode |-> "",
     selectedVideo |-> {}, localFile |-> {}, roomId |-> {},
     roomName |-> <<>>, file |-> {}, hashing |-> FALSE, pending |-> {},
     last |-> "mount"]

\* The effect that restores a session from localStorage.
RestoreSession(a, savedPassword, savedIdentity) ==
    IF savedPassword # ""
    THEN IF savedIdentity # ""
         THEN [a EXCEPT !.password = savedPassword, !.identity = savedIdentity,
                        !.view = "modeselect"]
         ELSE [a EXCEPT !.password = savedPassword, !.view = "identity"]
    ELSE a

setPassword(a, pw) == [a EXCEPT !.password = pw, !.view = "identity"]

setIdentity(a, id) == [a EXCEPT !.identity = id, !.view = "modeselect"]

setMode(a, m) ==
    [a EXCEPT !.mode = m,
              !.view = IF m = "cloud" THEN "dashboard"
                       ELSE IF m = "local" THEN "localfile" ELSE @]

selectVideo(a, video) ==
    [a EXCEPT !.selectedVideo = {video}, !.roomId = {video.id},
              !.view = "watchroom"]

setLocalFile(a, file, rid) ==
    [a EXCEPT !.localFile = {file}, !.roomId = {rid}, !.view = "watchroom"]

backToDashboard(a) ==
    [a EXCEPT !.selectedVideo = {}, !.localFile = {}, !.roomId = {},
              !.view = "modeselect"]

logout(a) ==
    [a EXCEPT !.password = "", !.identity = "", !.mode = "",
              !.selectedVideo = {}, !.localFile = {}, !.roomId = {},
              !.view = "password"]

\* AppContent renders the component of the view. A LocalFileSelector that is
\* no longer rendered loses its state; its pending continuations stay, and
\* their setHashing no longer reaches a mounted component.
AppContent(a) ==
    IF a.view = "localfile" THEN a
    ELSE [a EXCEPT !.roomName = <<>>, !.file = {}, !.hashing = FALSE,
                   !.pending = {[p EXCEPT !.live = FALSE] : p \in @}]

Did(a, op) == room' = AppContent([a EXCEPT !.last = op]) /\ Alone

AppInit ==
    /\ \E savedPassword \in {"", "pw"}, savedIdentity \in Identities \cup {""} :
          room = RestoreSession(AppFresh, savedPassword, savedIdentity)
    /\ other = NoRoom
    /\ wire = NoWire

\* PasswordGate: the password was accepted by /api/auth.
SubmitPassword ==
    /\ room.view = "password"
    /\ Did(setPassword(room, "pw"), "setPassword")

\* IdentitySelector: one of the two names is clicked.
ChooseIdentity(id) ==
    /\ room.view = "identity"
    /\ Did(setIdentity(room, id), "setIdentity")

\* ModeSelector: cloud or local.
ChooseMode(m) ==
    /\ room.view = "modeselect"
    /\ Did(setMode(room, m), "setMode")

\* FileManager: a row of the list is clicked.
ClickVideo(video) ==
    /\ room.view = "dashboard"
    /\ Did(selectVideo(room, video), "selectVideo")

\* The Back button of FileManager, LocalFileSelector and WatchRoom.
ClickBack ==
    /\ room.view \in {"dashboard", "localfile", "watchroom"}
    /\ Did(backToDashboard(room), "backToDashboard")

\* The Log Out button of ModeSelector and FileManager.
ClickLogout ==
    /\ room.view \in {"modeselect", "dashboard"}
    /\ Did(logout(room), "logout")

\* LocalFileSelector: a video file is picked; an empty room name is filled
\* from the file name.
handleFileChange(name) ==
    /\ room.view = "localfile"
    /\ Did([room EXCEPT !.file = {name},
                        !.roomName = IF @ = <<>> THEN stripExtension(name) ELSE @],
           "handleFileChange")

\* LocalFileSelector: the room name input changes.
TypeRoomName(name) ==
    /\ room.view = "localfile"
    /\ name # room.roomName
    /\ Did([room EXCEPT !.roomName = name], "setRoomName")

\* handleStartWatching up to its await: the button is enabled with a file, a
\* room name that is not blank, and no hash being computed.
handleStartWatching ==
    /\ room.view = "localfile"
    /\ room.file # {}
    /\ trim(room.roomName) # <<>>
    /\ ~room.hashing
    /\ Cardinality(room.pending) < MaxPending
    /\ \E name \in room.file :
          Did([room EXCEPT !.hashing = TRUE,
                           !.pending = @ \cup {[name |-> name,
                                                roomName |-> room.roomName,
                                                live |-> TRUE]}],
              "handleStartWatching")

\* computeFileHash resolved: the continuation calls setLocalFile with the
\* room key of the name it captured, then setHashing(false).
HashResolved(p) ==
    /\ p \in room.pending
    /\ Did(setLocalFile([room EXCEPT !.pending = @ \ {p},
                                     !.hashing = IF p.live THEN FALSE ELSE @],
                        [name |-> p.name, hash |-> "def456"],
                        roomIdOf(p.roomName)),
           "setLocalFile")

\* computeFileHash rejected: the catch branch sets the error text only.
HashFailed(p) ==
    /\ p \in room.pending
    /\ Did([room EXCEPT !.pending = @ \ {p},
                        !.hashing = IF p.live THEN FALSE ELSE @],
           "hashFailed")

AppNext ==
    \/ SubmitPassword
    \/ \E id \in Identities : ChooseIdentity(id)
    \/ \E m \in {"cloud", "local"} : ChooseMode(m)
    \/ \E video \in Videos : ClickVideo(video)
    \/ ClickBack
    \/ ClickLogout
    \/ \E name \in PickedNames : handleFileChange(name)
    \/ \E name \in RoomNames : TypeRoomName(name)
    \/ handleStartWatching
    \/ \E p \in room.pending : HashResolved(p)
    \/ \E p \in room.pending : HashFailed(p)

AppSpec == AppInit /\ [][AppNext]_vars

\* A JavaScript string that is neither null nor ''.
IsSet(option) == option # {} /\ option # {<<>>}

\* C38: whenever the watch room is shown the identity and the room key are
\* set and exactly one of selectedVideo and localFile is set, the one of the
\* mode; and after backToDashboard or logout roomId, selectedVideo and
\* localFile are cleared and the view is not the watch room.
C38_WatchroomHasSession ==
    /\ room.view = "watchroom" =>
          /\ room.identity # ""
          /\ IsSet(room.roomId)
          /\ room.mode \in {"cloud", "local"}
          /\ room.mode = "cloud" => (room.selectedVideo # {} /\ room.localFile = {})
          /\ room.mode = "local" => (room.localFile # {} /\ room.selectedVideo = {})
    /\ room.last \in {"backToDashboard", "logout"} =>
          /\ room.roomId = {}
          /\ room.selectedVideo = {}
          /\ room.localFile = {}
          /\ room.view # "watchroom"

\* The part of C38 about leaving: what backToDashboard and logout clear.
LeavingClears ==
    room.last \in {"backToDashboard", "logout"} =>
        /\ room.roomId = {}
        /\ room.selectedVideo = {}
        /\ room.localFile = {}
        /\ room.view \in {"modeselect", "password"}

\* Two parts of C38 on their own: the watch room is shown with an identity,
\* and with exactly one of selectedVideo and localFile.
WatchroomHasIdentity == room.view = "watchroom" => room.identity # ""

WatchroomOneSource ==
    room.view = "watchroom" => ((room.selectedVideo = {}) # (room.localFile = {}))

====
